---- MODULE Spec2Model ----
(***************************************************************************)
(* Model of marzipanui: the parameter store (src/src/params.ts) and the    *)
(* asynchronous image-request scheduler of the <marzipan-ui> element       *)
(* (src/src/MarzipanUi.ts, the revision starting at line 297).             *)
(*                                                                         *)
(* Values.  A JavaScript value held by a Container is modelled as a tuple  *)
(* so that values of every type can be compared with `undefined`:          *)
(*    undefined  -> << >>                                                  *)
(*    a string s -> << s >>                                                *)
(*    a number   -> << n, d >>, the exact fraction n/d in lowest terms     *)
(*                  with d > 0 (the finite IEEE doubles are modelled by    *)
(*                  exact rationals), or << 1, 0 >> for Infinity,          *)
(*                  << -1, 0 >> for -Infinity and << 0, 0 >> for NaN.      *)
(***************************************************************************)
EXTENDS Integers, Sequences, FiniteSets, TLC

\* ------------------------------------------------------------------------
\* Bounds of the model.
\* ------------------------------------------------------------------------

\* Images created by doImageChange over one behaviour.
MaxLoads == 2

\* Size of the pool of timer handles setTimeout draws from.
MaxTimers == 3

\* ------------------------------------------------------------------------
\* Numbers.
\* ------------------------------------------------------------------------

Abs(n) == IF n < 0 THEN -n ELSE n

RECURSIVE GCD(_, _)
GCD(a, b) == IF b = 0 THEN a ELSE GCD(b, a % b)

Sign(n) == IF n < 0 THEN -1 ELSE IF n > 0 THEN 1 ELSE 0

\* The values of a division by zero.
NaN == << 0, 0 >>
Infinity == << 1, 0 >>

\* The number n/d in lowest terms with a positive denominator; n/0 is an
\* infinity with the sign of n, and 0/0 is NaN.
Num(n, d) ==
    IF d = 0
    THEN << Sign(n), 0 >>
    ELSE LET g == GCD(Abs(n), Abs(d))
             s == IF d < 0 THEN -1 ELSE 1
         IN  << (s * n) \div g, (s * d) \div g >>

Whole(n) == << n, 1 >>

IsNaN(a) == a = NaN
IsFinite(a) == a[2] # 0

\* a + b; two infinities add up to themselves when they are the same one and
\* to NaN otherwise.
RAdd(a, b) ==
    IF a[2] = 0 /\ b[2] = 0
    THEN IF a = b THEN a ELSE NaN
    ELSE Num(a[1] * b[2] + b[1] * a[2], a[2] * b[2])

RNeg(a) == << -a[1], a[2] >>
RSub(a, b) == RAdd(a, RNeg(b))
RMul(a, b) == Num(a[1] * b[1], a[2] * b[2])

\* a / b; the sign of b goes to the numerator so that it survives b = 0 and
\* a infinite.
RDiv(a, b) ==
    Num(a[1] * b[2] * (IF b[1] < 0 THEN -1 ELSE 1), a[2] * Abs(b[1]))

\* a < b and a <= b; both are false when a or b is NaN.
RLess(a, b) ==
    /\ ~IsNaN(a)
    /\ ~IsNaN(b)
    /\ IF a[2] = 0 /\ b[2] = 0 THEN a[1] < b[1] ELSE a[1] * b[2] < b[1] * a[2]

RLeq(a, b) ==
    /\ ~IsNaN(a)
    /\ ~IsNaN(b)
    /\ IF a[2] = 0 /\ b[2] = 0 THEN a[1] <= b[1] ELSE a[1] * b[2] <= b[1] * a[2]

\* A rounding towards -infinity.
MathRound_Floor(a) ==
    IF a[2] = 0 THEN a ELSE Whole(a[1] \div a[2])

\* Math.round: the nearest integer, halves rounded towards +infinity; NaN and
\* the infinities are returned as they are.
MathRound(a) ==
    IF a[2] = 0 THEN a ELSE Whole((2 * a[1] + a[2]) \div (2 * a[2]))

\* v === w (and v == w) on values of one type: NaN is not equal to itself.
StrictEq(v, w) == v = w /\ ~IsNaN(v)

Str(s) == << s >>
Undef == << >>

\* ------------------------------------------------------------------------
\* params.ts: Container
\* ------------------------------------------------------------------------

\* A Container is its two private fields, __value and __default.
Container(v, d) == [value |-> v, default |-> d]

\* Container.get
get(c) == IF c.value = Undef THEN c.default ELSE c.value

\* Container.maybe
maybe(c) == c.value

\* The result of a mutating Container method: the container afterwards and
\* whether __notify dispatched a "mui-value-change" event.
Outcome(c, notified) == [c |-> c, notified |-> notified]

\* A __set without the test for an unchanged value.
ContainerSet_AlwaysNotify(c, v) == Outcome([c EXCEPT !.value = v], TRUE)

\* Container.__set
ContainerSet(c, v) ==
    IF StrictEq(v, c.value)
    THEN Outcome(c, FALSE)
    ELSE Outcome([c EXCEPT !.value = v], TRUE)

\* A set that overwrites the default as well.
set_AndDefault(c, v) == Outcome([c EXCEPT !.value = v, !.default = v], TRUE)

\* Container.set
set(c, v) == ContainerSet(c, v)

\* Container.reset
reset(c) == ContainerSet(c, Undef)

\* Container.setDefault
setDefault(c, v) ==
    IF StrictEq(v, c.default)
    THEN Outcome(c, FALSE)
    ELSE Outcome([c EXCEPT !.default = v], TRUE)

\* A copyFrom that copies the value and leaves the default.
ContainerCopyFrom_ValueOnly(c, other) ==
    IF c.value = other.value
    THEN Outcome(c, FALSE)
    ELSE Outcome([c EXCEPT !.value = other.value], TRUE)

\* Container.copyFrom
ContainerCopyFrom(c, other) ==
    IF StrictEq(c.default, other.default) /\ StrictEq(c.value, other.value)
    THEN Outcome(c, FALSE)
    ELSE Outcome([c EXCEPT !.default = other.default, !.value = other.value], TRUE)

\* ------------------------------------------------------------------------
\* params.ts: Parameters
\* ------------------------------------------------------------------------

\* The Container fields of Parameters, in declaration order (the order in
\* which props() yields them).
Props == << "presets", "address", "maxiter", "type", "x", "y", "size",
            "ratio", "pixels", "extra" >>

PropNames == { Props[i] : i \in 1..Len(Props) }

\* The defaults given by the field initialisers of Parameters.
FieldDefaults ==
    [ presets |-> Str("Mandelbrot"),
      address |-> Str("/_generator"),
      maxiter |-> Whole(100),
      type    |-> Str("mandelbrot"),
      x       |-> Num(-1, 2),
      y       |-> Whole(0),
      size    |-> Whole(3),
      ratio   |-> Whole(1),
      pixels  |-> Whole(900),
      extra   |-> Str("") ]

\* new Parameters(): every container unset, with its declared default.
NewParameters == [ n \in PropNames |-> Container(Undef, FieldDefaults[n]) ]

\* The preset table; a preset names a value for some of the parameters.
presets ==
    [ Mandelbrot |-> [ type    |-> Str("mandelbrot"),
                       x       |-> Num(-1, 2),
                       y       |-> Whole(0),
                       size    |-> Whole(3),
                       maxiter |-> Whole(100),
                       extra   |-> Str("") ],
      Julia      |-> [ type    |-> Str("julia"),
                       x       |-> Whole(0),
                       y       |-> Whole(0),
                       size    |-> Whole(3),
                       maxiter |-> Whole(100),
                       extra   |-> Str("palette=black,blue,red") ] ]

\* ------------------------------------------------------------------------
\* params.ts: the typed containers and their texts
\* ------------------------------------------------------------------------

\* A text (a JavaScript string that is encoded or decoded) is the sequence
\* of its characters; "" is << >>.  The text of a string or enum parameter
\* is kept in one piece, << s >>, which is also the value Str(s) it stands
\* for.  The texts of the model hold no white space.
Digits == << "0", "1", "2", "3", "4", "5", "6", "7", "8", "9" >>

IsDigit(c) == \E i \in 1..Len(Digits) : Digits[i] = c
DigitValue(c) == (CHOOSE i \in 1..Len(Digits) : Digits[i] = c) - 1

\* The character of t at position i, "" past the end.
At(t, i) == IF i \in 1..Len(t) THEN t[i] ELSE ""

\* The number of decimal digits of t from position i on.
RECURSIVE DigitRun(_, _)
DigitRun(t, i) == IF IsDigit(At(t, i)) THEN 1 + DigitRun(t, i + 1) ELSE 0

\* The value of the n digits of t from position i on.
RECURSIVE Decimal(_, _, _)
Decimal(t, i, n) ==
    IF n = 0 THEN 0 ELSE 10 * Decimal(t, i, n - 1) + DigitValue(t[i + n - 1])

RECURSIVE Pow10(_)
Pow10(n) == IF n = 0 THEN 1 ELSE 10 * Pow10(n - 1)

SignLen(t) == IF At(t, 1) \in {"-", "+"} THEN 1 ELSE 0
SignOf(t) == IF At(t, 1) = "-" THEN -1 ELSE 1

InfinityText == << "I", "n", "f", "i", "n", "i", "t", "y" >>

\* parseInt(t, 10): an optional sign and the longest run of digits after it;
\* NaN when there is no digit.
parseInt(t) ==
    LET i == SignLen(t) + 1
        n == DigitRun(t, i)
    IN  IF n = 0 THEN NaN ELSE Whole(SignOf(t) * Decimal(t, i, n))

\* parseFloat(t): the longest prefix of t that is a decimal literal (sign,
\* digits, fraction, exponent) or a signed "Infinity"; NaN when there is
\* none.
parseFloat(t) ==
    LET i    == SignLen(t) + 1
        n    == DigitRun(t, i)
        f    == IF At(t, i + n) = "." THEN DigitRun(t, i + n + 1) ELSE 0
        m    == IF At(t, i + n) = "." /\ n + f > 0 THEN i + n + 1 + f ELSE i + n
        es   == IF At(t, m + 1) \in {"-", "+"} THEN 1 ELSE 0
        en   == IF At(t, m) \in {"e", "E"} THEN DigitRun(t, m + 1 + es) ELSE 0
        ex   == Decimal(t, m + 1 + es, en)
        mant == Num(SignOf(t) * (Decimal(t, i, n) * Pow10(f) + Decimal(t, i + n + 1, f)),
                    Pow10(f))
    IN  IF \A k \in 1..Len(InfinityText) : At(t, i + k - 1) = InfinityText[k]
        THEN << SignOf(t), 0 >>
        ELSE IF n + f = 0
             THEN NaN
             ELSE IF At(t, m + 1) = "-"
                  THEN RDiv(mant, Whole(Pow10(ex)))
                  ELSE RMul(mant, Whole(Pow10(ex)))

\* The decimal digits of the natural number n.
RECURSIVE IntText(_)
IntText(n) ==
    IF n < 10 THEN << Digits[n + 1] >> ELSE Append(IntText(n \div 10), Digits[(n % 10) + 1])

\* The digits of the fraction r/d (r < d), at most k of them.
RECURSIVE FractionText(_, _, _)
FractionText(r, d, k) ==
    IF r = 0 \/ k = 0
    THEN << >>
    ELSE << Digits[((10 * r) \div d) + 1] >> \o FractionText((10 * r) % d, d, k - 1)

\* Number.prototype.toString for the numbers of the model (below 10^21 and
\* not below 10^-6 in magnitude, which are written without an exponent): the
\* digits that give the number back, 17 significant ones at most.
NumberToString(a) ==
    IF IsNaN(a)
    THEN << "N", "a", "N" >>
    ELSE IF ~IsFinite(a)
         THEN (IF a[1] < 0 THEN << "-" >> ELSE << >>) \o InfinityText
         ELSE LET whole == Abs(a[1]) \div a[2]
                  frac  == FractionText(Abs(a[1]) % a[2], a[2], 17)
              IN  (IF a[1] < 0 THEN << "-" >> ELSE << >>)
                     \o IntText(whole)
                     \o (IF frac = << >> THEN << >> ELSE << "." >> \o frac)

\* new Invalid(msg), the result of a decodeString that rejects its text.
Invalid == << "Invalid", "Invalid", "Invalid" >>

\* The class of the container of each parameter.
Kind ==
    [ presets |-> "EnumContainer",
      address |-> "StringContainer",
      maxiter |-> "PositiveIntContainer",
      type    |-> "EnumContainer",
      x       |-> "FloatContainer",
      y       |-> "FloatContainer",
      size    |-> "FloatContainer",
      ratio   |-> "FloatContainer",
      pixels  |-> "PositiveIntContainer",
      extra   |-> "StringContainer" ]

\* EnumContainer.values
EnumValues(name) ==
    IF name = "presets" THEN DOMAIN presets ELSE { "mandelbrot", "julia" }

\* The decodeString of the four container classes, for the parameter `name`.
decodeString(name, t) ==
    CASE Kind[name] = "StringContainer" ->
             IF t = << >> THEN Undef ELSE t
      [] Kind[name] = "FloatContainer" ->
             IF t = << >>
             THEN Undef
             ELSE IF IsNaN(parseFloat(t)) THEN Invalid ELSE parseFloat(t)
      [] Kind[name] = "PositiveIntContainer" ->
             IF t = << >>
             THEN Undef
             ELSE IF IsNaN(parseInt(t)) \/ parseInt(t)[1] < 0
                  THEN Invalid
                  ELSE parseInt(t)
      [] Kind[name] = "EnumContainer" ->
             IF t = << >> \/ t = << "<default>" >>
             THEN Undef
             ELSE IF t[1] \notin EnumValues(name) THEN Invalid ELSE t

\* The encodeString of the four container classes.
encodeString(name, v) ==
    IF Kind[name] \in { "FloatContainer", "PositiveIntContainer" }
    THEN NumberToString(v)
    ELSE v

\* Container.valid
valid(name, t) == t = << >> \/ decodeString(name, t) # Invalid

\* Container.setFromString throws for the text t.
Throws(name, t) == decodeString(name, t) = Invalid

\* Container.setFromString, for a text it does not throw for.
setFromString(c, name, t) ==
    IF decodeString(name, t) = Undef
    THEN reset(c)
    ELSE set(c, decodeString(name, t))

\* Container.maybeAsString, for a container that holds a value.
maybeAsString(name, c) == encodeString(name, maybe(c))

\* The result of a mutating Parameters method: the parameters afterwards and
\* the number of "mui-value-change" events forwarded to Parameters.event
\* (the constructor forwards every container event).
POutcome(p, n) == [p |-> p, n |-> n]

\* The result of some Container methods called in a row on one container:
\* the container afterwards and the number of events it dispatched.
Events(o) == [c |-> o.c, n |-> IF o.notified THEN 1 ELSE 0]
Then(e, o) == [c |-> o.c, n |-> e.n + (IF o.notified THEN 1 ELSE 0)]
Untouched(c) == [c |-> c, n |-> 0]

RECURSIVE SumEvents(_, _)
SumEvents(r, i) == IF i = 0 THEN 0 ELSE r[Props[i]].n + SumEvents(r, i - 1)

\* The parameters after each container went through r, and the events the
\* containers dispatched on the way.
Collect(r) == POutcome([ n \in PropNames |-> r[n].c ], SumEvents(r, Len(Props)))

left(p)   == RSub(get(p.x), RMul(Num(1, 2), get(p.size)))
right(p)  == RAdd(get(p.x), RMul(Num(1, 2), get(p.size)))
top(p)    == RSub(get(p.y), RDiv(RMul(Num(1, 2), get(p.size)), get(p.ratio)))
bottom(p) == RAdd(get(p.y), RDiv(RMul(Num(1, 2), get(p.size)), get(p.ratio)))

\* Parameters.copyFrom: container by container.
copyFrom(self, other) ==
    Collect([ n \in PropNames |-> Events(ContainerCopyFrom(self[n], other[n])) ])

\* Parameters.query: the texts of the explicitly set values (__maybe_values),
\* keyed by parameter name.  The record stands for the query string:
\* URLSearchParams.toString writes one name=text pair per key, and
\* new URLSearchParams of that string gives the same pairs back.
\* (First, a query that leaves out the values that equal their default.)
query_NonDefault(p) ==
    [ n \in { m \in PropNames : maybe(p[m]) # Undef /\ maybe(p[m]) # p[m].default }
        |-> maybeAsString(n, p[n]) ]
query(p) ==
    [ n \in { m \in PropNames : maybe(p[m]) # Undef } |-> maybeAsString(n, p[n]) ]

\* Parameters.url: the request URL, as the record of its parts.  The text is
\* address + '?' + the eight encoded pairs, then '&' + extra when extra is a
\* non-empty string; number.toString and the encoding are injective.
url(p) ==
    [ address |-> get(p.address),
      left    |-> left(p),
      right   |-> right(p),
      top     |-> top(p),
      bottom  |-> bottom(p),
      width   |-> get(p.pixels),
      height  |-> MathRound(RDiv(get(p.pixels), get(p.ratio))),
      maxiter |-> get(p.maxiter),
      type    |-> get(p.type),
      extra   |-> get(p.extra) ]

\* A loop body that resets the container whatever the caller asked for.
PresetStep_AlwaysResets(d, doReset) == Then(Events(d), reset(d.c))

\* The body of the loop of applyPreset for one container the preset names.
PresetStep(d, doReset) ==
    IF doReset THEN Then(Events(d), reset(d.c)) ELSE Events(d)

\* Parameters.applyPreset
applyPreset(p, doReset) ==
    LET name == get(p.presets)[1]
    IN  IF name \notin DOMAIN presets
        THEN POutcome(p, 0)
        ELSE Collect([ n \in PropNames |->
                         IF n \in DOMAIN presets[name]
                         THEN PresetStep(setDefault(p[n], presets[name][n]), doReset)
                         ELSE Untouched(p[n]) ])

\* The events of two Parameters methods called in a row.
After(n, o) == POutcome(o.p, n + o.n)

\* The end of Parameters.from: applyPreset on what the loop left.
FromPreset(s) == After(s.n, applyPreset(s.p, FALSE))

\* Parameters.from throws: setFromString throws for one of the texts of q.
FromThrows(q) == \E n \in DOMAIN q \cap PropNames : Throws(n, q[n])

\* The containers the loop of Parameters.from over props() reaches with a
\* text of q: those that come before the first one setFromString throws for.
ReadFrom(q) ==
    { Props[i] : i \in { k \in 1..Len(Props) :
                           /\ Props[k] \in DOMAIN q
                           /\ \A j \in 1..k : Props[j] \in DOMAIN q
                                                 => ~Throws(Props[j], q[Props[j]]) } }

\* The loop of Parameters.from.  The containers are independent, so the loop
\* is the pointwise map over the containers it reaches.
FromLoop(p, q) ==
    Collect([ n \in PropNames |->
                IF n \in ReadFrom(q)
                THEN Events(setFromString(p[n], n, q[n]))
                ELSE Untouched(p[n]) ])

\* Parameters.from.  q maps the names present in the URLSearchParams to
\* their texts.  When setFromString throws, the exception leaves from with
\* the containers before it updated and the preset not applied.
from(p, q) ==
    IF FromThrows(q)
    THEN FromLoop(p, q)
    ELSE FromPreset(FromLoop(p, q))

\* ------------------------------------------------------------------------
\* The browser, as the element uses it.
\* ------------------------------------------------------------------------

\* The address of the generator the user can type into the "Address" field,
\* besides the default: an absolute URL.
AbsoluteAddress == Str("http://gen.example/render")

\* HTMLImageElement.src reflects a URL: the getter returns the value resolved
\* against the document's address, so an address that is a path comes back
\* with the origin of the page in front, and an absolute one unchanged.
Resolve(u) ==
    [u EXCEPT !.address =
        IF @ = Str("/_generator") THEN Str("http://localhost:8001/_generator") ELSE @]

\* An optional object reference: << >> is undefined, << v >> is v.
Some(v) == << v >>

\* DOMMatrixReadOnly, restricted to the matrices the element builds from
\* translate() and scale(): << sx, dx, dy, sy >> maps the point (x, y) to
\* (sx*x + dx, sy*y + dy).
Matrix2(sx, sy, dx, dy) == << sx, dx, dy, sy >>

\* The matrices with one scale for both axes.
Matrix(s, dx, dy) == Matrix2(s, s, dx, dy)

\* (new DOMMatrixReadOnly()).translate(dx, dy)
Translate(dx, dy) == Matrix(Whole(1), dx, dy)

\* (new DOMMatrixReadOnly()).scale(s)
Scale(s) == Matrix(s, Whole(0), Whole(0))

\* new DOMMatrixReadOnly()
Identity == Matrix(Whole(1), Whole(0), Whole(0))

\* DOMMatrixReadOnly.multiply: a.multiply(b) applies b first, then a.
Multiply(a, b) ==
    Matrix2(RMul(a[1], b[1]),
            RMul(a[4], b[4]),
            RAdd(RMul(a[1], b[2]), a[2]),
            RAdd(RMul(a[4], b[3]), a[3]))

\* DOMMatrixReadOnly.inverse.  A matrix that is not invertible (its
\* determinant is 0, or is not a finite number) gives the matrix whose
\* entries are all NaN.
Inverse(m) ==
    LET det == RMul(m[1], m[4])
    IN  IF ~IsFinite(det) \/ det = Whole(0)
        THEN Matrix2(NaN, NaN, NaN, NaN)
        ELSE Matrix2(RDiv(Whole(1), m[1]),
                     RDiv(Whole(1), m[4]),
                     RDiv(RSub(Whole(0), m[2]), m[1]),
                     RDiv(RSub(Whole(0), m[3]), m[4]))

\* DOMMatrixReadOnly.transformPoint of the point (x, y, 0, w).
TransformPoint(m, x, y, w) ==
    << RAdd(RMul(m[1], x), RMul(m[2], w)),
       RAdd(RMul(m[4], y), RMul(m[3], w)) >>

\* ------------------------------------------------------------------------
\* The geometry module: Transform
\* ------------------------------------------------------------------------

\* A Transform is its field __m: the nine entries of a 3x3 matrix, row by
\* row.  (The source counts them from 0, the tuple from 1.)
IdentityTransform ==
    << Whole(1), Whole(0), Whole(0),
       Whole(0), Whole(1), Whole(0),
       Whole(0), Whole(0), Whole(1) >>

ZeroTransform == [ i \in 1..9 |-> Whole(0) ]

\* The sum of three products, as the entries of with() are written.
Dot3(a, b, c, d, e, f) == RAdd(RAdd(RMul(a, b), RMul(c, d)), RMul(e, f))

\* Transform.with.  (First, a with that multiplies from the left.)
Transform_with_Left(m, t) ==
    << Dot3(t[1], m[1], t[2], m[4], t[3], m[7]),
       Dot3(t[1], m[2], t[2], m[5], t[3], m[8]),
       Dot3(t[1], m[3], t[2], m[6], t[3], m[9]),
       Dot3(t[4], m[1], t[5], m[4], t[6], m[7]),
       Dot3(t[4], m[2], t[5], m[5], t[6], m[8]),
       Dot3(t[4], m[3], t[5], m[6], t[6], m[9]),
       Dot3(t[7], m[1], t[8], m[4], t[9], m[7]),
       Dot3(t[7], m[2], t[8], m[5], t[9], m[8]),
       Dot3(t[7], m[3], t[8], m[6], t[9], m[9]) >>
Transform_with(m, t) ==
    << Dot3(m[1], t[1], m[2], t[4], m[3], t[7]),
       Dot3(m[1], t[2], m[2], t[5], m[3], t[8]),
       Dot3(m[1], t[3], m[2], t[6], m[3], t[9]),
       Dot3(m[4], t[1], m[5], t[4], m[6], t[7]),
       Dot3(m[4], t[2], m[5], t[5], m[6], t[8]),
       Dot3(m[4], t[3], m[5], t[6], m[6], t[9]),
       Dot3(m[7], t[1], m[8], t[4], m[9], t[7]),
       Dot3(m[7], t[2], m[8], t[5], m[9], t[8]),
       Dot3(m[7], t[3], m[8], t[6], m[9], t[9]) >>

\* a * b - c * d, as the cofactors of inverse() are written.
Cofactor(a, b, c, d) == RSub(RMul(a, b), RMul(c, d))

\* The constant det of Transform.inverse.
Determinant(m) ==
    Dot3(m[1], Cofactor(m[9], m[5], m[6], m[8]),
         m[2], Cofactor(m[6], m[7], m[9], m[4]),
         m[3], Cofactor(m[8], m[4], m[5], m[7]))

\* Transform.inverse.  For a determinant of 0 it writes "invalid inverse" to
\* the console and returns the matrix of nine zeroes.
Transform_inverse(m) ==
    LET t11    == Cofactor(m[9], m[5], m[6], m[8])
        t12    == Cofactor(m[6], m[7], m[9], m[4])
        t13    == Cofactor(m[8], m[4], m[5], m[7])
        det    == Dot3(m[1], t11, m[2], t12, m[3], t13)
        invDet == RDiv(Whole(1), det)
    IN  IF StrictEq(det, Whole(0))
        THEN ZeroTransform
        ELSE << RMul(t11, invDet),
                RMul(Cofactor(m[3], m[8], m[9], m[2]), invDet),
                RMul(Cofactor(m[6], m[2], m[3], m[5]), invDet),
                RMul(t12, invDet),
                RMul(Cofactor(m[9], m[1], m[3], m[7]), invDet),
                RMul(Cofactor(m[3], m[4], m[6], m[1]), invDet),
                RMul(t13, invDet),
                RMul(Cofactor(m[2], m[7], m[8], m[1]), invDet),
                RMul(Cofactor(m[5], m[1], m[2], m[4]), invDet) >>

\* Transform.apply, on the point << x, y >>.
Transform_apply(m, p) ==
    << Dot3(m[1], p[1], m[2], p[2], m[3], Whole(1)),
       Dot3(m[4], p[1], m[5], p[2], m[6], Whole(1)) >>

\* Transform.translate
Transform_translate(m, delta) ==
    Transform_with(m, << Whole(1), Whole(0), delta[1],
                         Whole(0), Whole(1), delta[2],
                         Whole(0), Whole(0), Whole(1) >>)

\* Transform.scale
Transform_scale(m, sc) ==
    Transform_with(m, << sc[1], Whole(0), Whole(0),
                         Whole(0), sc[2], Whole(0),
                         Whole(0), Whole(0), Whole(1) >>)

\* ------------------------------------------------------------------------
\* MarzipanUi: state
\* ------------------------------------------------------------------------

VARIABLES
    params,          \* this.params, the live Parameters
    currentImg,      \* this.currentImg: 0 (undefined) or the image's index in imgs
    currentParams,   \* this.currentParams: << >> or << Parameters >>
    localTransform,  \* this.localTransform
    loading,         \* this.loading
    imgError,        \* the #imgError snackbar is open
    reloadTimer,     \* this.reloadTimer: 0 (undefined) or a timer handle
    timers,          \* the handles of the timeouts that are scheduled
    loadingImg,      \* this.loadingImg: 0 (undefined) or the image's index in imgs
    imgs,            \* the <img> elements doImageChange created, in creation order
    history,         \* the number of entries added by history.pushState
    canvas,          \* << canvas.width, canvas.height >>
    tempTransform,   \* this.tempTransform
    imgscrollOrigin, \* this.imgscrollOrigin: << >> or the point << x, y >>
    canvasFromFractal, \* this.canvasFromFractal: << >> or << matrix >>
    last,            \* what the handler that ran last did (see Log)
    heldTransform    \* the Transform a caller of the geometry module holds

vars == << params, currentImg, currentParams, localTransform, loading, imgError,
           reloadTimer, timers, loadingImg, imgs, history, canvas,
           tempTransform, imgscrollOrigin, canvasFromFractal, last,
           heldTransform >>

\* ------------------------------------------------------------------------
\* Inputs.
\* ------------------------------------------------------------------------

\* The values a user types into the edit fields, per parameter, and the
\* fields a user clears.
EditValues ==
    [ n \in PropNames |->
        CASE n = "address" -> { AbsoluteAddress }
          [] OTHER         -> {} ]

ClearedFields == { "address" }

\* The zoom factors of handleWheel (deltaY > 0, deltaY <= 0) and of
\* handleDblclick.
ZoomFactors == { Num(3, 2), Num(2, 3) }

\* Zoom gestures are followed while the size of the live window stays
\* between the default size, 3, and one zoom step below it.
MinSize == Whole(2)
MaxSize == Whole(3)

\* (A size that is not a finite number is followed too.)
SizeInRange(sz) == ~IsFinite(sz) \/ (RLeq(MinSize, sz) /\ RLeq(sz, MaxSize))

\* With it the scale of localTransform stays between MinSize/MaxSize and
\* MaxSize/MinSize; that bound is kept when the size is not a finite number.
ScaleInRange(m) ==
    \/ ~IsFinite(m[1])
    \/ /\ RLeq(RDiv(MinSize, MaxSize), m[1])
       /\ RLeq(m[1], RDiv(MaxSize, MinSize))

\* Gestures are followed while the centre of the live window stays within
\* one unit of the default centre, (-1/2, 0), along each axis.
MaxShift == Whole(1)

CentreInRange(c) ==
    \/ ~IsFinite(c[1])
    \/ ~IsFinite(c[2])
    \/ /\ RLeq(RSub(Num(-1, 2), MaxShift), c[1])
       /\ RLeq(c[1], RAdd(Num(-1, 2), MaxShift))
       /\ RLeq(RSub(Whole(0), MaxShift), c[2])
       /\ RLeq(c[2], MaxShift)

\* The middle of the canvas, in client coordinates.
ScreenCentre == << Whole(750), Whole(300) >>

\* The points of the canvas the pointer is at when a gesture event is
\* dispatched, in client coordinates: the middle, and a point up and to the
\* left of it.
ScreenPoints == { ScreenCentre, << Whole(450), Whole(150) >> }

\* event.deltaY of the wheel events, and event.buttons of the mouse events.
WheelDeltas == { -1, 1 }
Buttons == { 0, 1 }

\* The sizes a user types into the "Size" field.
TypedSizes == { Whole(3) }

\* The client sizes the canvas is laid out with.
CanvasSizes == { << 900, 600 >> }

\* The query strings of the locations the page is opened at or navigated to.
NoQuery == [ n \in {} |-> Undef ]
LocationQueries == { NoQuery, [ n \in {"address"} |-> AbsoluteAddress ] }

\* ------------------------------------------------------------------------
\* MarzipanUi: the debounce timer
\* ------------------------------------------------------------------------

TimerState(r, t) == [reloadTimer |-> r, timers |-> t]

\* The handles setTimeout can return when the timeouts t are scheduled.  A
\* browser never returns a handle twice; the model reuses a handle once its
\* timeout has expired or was cleared, which no code of the element can
\* tell apart: the only use of a handle is clearTimeout(this.reloadTimer).
FreeTimers(t) == (1..MaxTimers) \ t

\* A queueImageChange that does not clear the timeout it replaces.
Cleared_Forgotten(ts) == ts.timers

\* The first statement of queueImageChange: the scheduled timeouts after
\* clearTimeout(this.reloadTimer), which does nothing for an expired handle.
Cleared(ts) ==
    IF ts.reloadTimer # 0
    THEN ts.timers \ {ts.reloadTimer}
    ELSE ts.timers

\* MarzipanUi.queueImageChange
queueImageChange(ts) ==
    LET id == CHOOSE i \in FreeTimers(Cleared(ts)) :
                  \A j \in FreeTimers(Cleared(ts)) : i <= j
    IN  TimerState(id, Cleared(ts) \cup {id})

\* n calls of queueImageChange, one per "mui-value-change" event.
RECURSIVE QueueN(_, _)
QueueN(ts, n) == IF n = 0 THEN ts ELSE QueueN(queueImageChange(ts), n - 1)

RECURSIVE CanQueueN(_, _)
CanQueueN(ts, n) ==
    IF n = 0
    THEN TRUE
    ELSE IF FreeTimers(Cleared(ts)) = {}
         THEN FALSE
         ELSE CanQueueN(queueImageChange(ts), n - 1)

\* The trace of the element: the branch the handler that ran last took.
\*   "init"      the constructor
\*   "notified"  a handler during which the listener on params.event ran
\*   "location"  handleLocationChange, which calls queueImageChange itself
\*   "threw"     handleLocationChange left by the exception of params.from
\*   "quiet"     a handler that did not call queueImageChange
\*   "dispatch"  doImageChange created an image ("load image:" on the console)
\*   "skip"      doImageChange returned at its first test
\*   "commit"    a load listener adopted its image ("image loaded")
\*   "fail"      an error listener reported the failure ("error")
\*   "stale"     a load or error listener returned at its first test
\* (No handler of the element uses the geometry module.)
Log(what) == last' = what /\ UNCHANGED heldTransform

\* n calls of queueImageChange on the element.
Queue(n) ==
    LET ts == TimerState(reloadTimer, timers)
    IN  /\ CanQueueN(ts, n)
        /\ reloadTimer' = QueueN(ts, n).reloadTimer
        /\ timers' = QueueN(ts, n).timers

\* The listener the constructor registers on params.event, run for the n
\* events of one handler.
Notify(n) == Queue(n) /\ Log(IF n = 0 THEN "quiet" ELSE "notified")

\* A handler that returns without touching the element.
Nothing ==
    /\ Log("quiet")
    /\ UNCHANGED << params, currentImg, currentParams, localTransform, loading,
                    imgError, reloadTimer, timers, loadingImg, imgs, history,
                    canvas, tempTransform, imgscrollOrigin, canvasFromFractal >>

\* ------------------------------------------------------------------------
\* MarzipanUi: initial state
\* ------------------------------------------------------------------------

\* The state after the constructor of an element created on a location with
\* the query q: handleLocationChange has read the query and queued the first
\* image change, or was left by the exception of params.from, and the
\* constructor with it, after the listener on params.event had queued an
\* image change for every container that changed.
Constructed(q) ==
        LET f  == from(NewParameters, q)
            ts == QueueN(TimerState(0, {}),
                         IF FromThrows(q) THEN f.n ELSE f.n + 1)
        IN  /\ params = f.p
            /\ reloadTimer = ts.reloadTimer
            /\ timers = ts.timers
            /\ currentImg = 0
            /\ currentParams = Undef
            /\ localTransform = Identity
            /\ loading = FALSE
            /\ imgError = FALSE
            /\ loadingImg = 0
            /\ imgs = << >>
            /\ history = 0
            /\ canvas = << 300, 150 >>
            /\ tempTransform = Identity
            /\ imgscrollOrigin = Undef
            /\ canvasFromFractal = Undef
            /\ last = IF FromThrows(q) THEN "threw" ELSE "init"

\* The state after the constructor.  (Where the geometry module is not
\* called, the Transform held is the identity throughout.)
Init ==
    /\ \E q \in LocationQueries : Constructed(q)
    /\ heldTransform = IdentityTransform

\* ------------------------------------------------------------------------
\* MarzipanUi: the view transform
\* ------------------------------------------------------------------------

\* The matrix redraw builds for the canvas cv, the committed parameters cp,
\* and the transforms lt (local) and tt (temporary).
ViewMatrix(cv, cp, lt, tt) ==
    LET cWidth  == Whole(cv[1])
        cHeight == Whole(cv[2])
        fWidth  == RSub(right(cp), left(cp))
        fHeight == RSub(bottom(cp), top(cp))
        xscale  == RDiv(cWidth, fWidth)
        yscale  == RDiv(cHeight, fHeight)
        scale   == IF RLess(xscale, yscale) THEN xscale ELSE yscale
    IN  Multiply(
          Multiply(
            Multiply(
              Multiply(
                Translate(RDiv(RSub(cWidth, RMul(fWidth, scale)), Whole(2)),
                          RDiv(RSub(cHeight, RMul(fHeight, scale)), Whole(2))),
                Scale(scale)),
              Translate(RSub(Whole(0), left(cp)), RSub(Whole(0), top(cp)))),
            lt),
          tt)

\* MarzipanUi.redraw: the value of this.canvasFromFractal afterwards, old
\* being its value before.  (The canvas and its 2d context exist once the
\* element is rendered.)
redraw(cv, img, cp, lt, tt, old) ==
    IF img = 0 \/ cp = Undef
    THEN old
    ELSE Some(ViewMatrix(cv, cp[1], lt, tt))

\* canvas.getBoundingClientRect(): where the canvas lies in the window.
Rect == [ x |-> Whole(300), y |-> Whole(0),
          width |-> Whole(900), height |-> Whole(600) ]

\* A fractalFromScreenTransform that takes a missing canvasFromFractal for
\* the identity instead of returning.
FractalFromScreen_NoGuard(cv, cff) ==
    LET canvasFromScreen ==
            Multiply(Matrix2(RDiv(Whole(cv[1]), Rect.width),
                             RDiv(Whole(cv[2]), Rect.height),
                             Whole(0), Whole(0)),
                     Translate(RSub(Whole(0), Rect.x), RSub(Whole(0), Rect.y)))
    IN  Multiply(Inverse(IF cff = Undef THEN Identity ELSE cff[1]),
                 canvasFromScreen)

\* MarzipanUi.fractalFromScreenTransform, for the canvas cv and the value
\* cff of this.canvasFromFractal.
FractalFromScreen(cv, cff) ==
    IF cff = Undef
    THEN Identity
    ELSE LET canvasFromScreen ==
                 Multiply(Matrix2(RDiv(Whole(cv[1]), Rect.width),
                                  RDiv(Whole(cv[2]), Rect.height),
                                  Whole(0), Whole(0)),
                          Translate(RSub(Whole(0), Rect.x), RSub(Whole(0), Rect.y)))
         IN  Multiply(Inverse(cff[1]), canvasFromScreen)

\* MarzipanUi.fractalFromScreenTransform
fractalFromScreenTransform == FractalFromScreen(canvas, canvasFromFractal)

\* ------------------------------------------------------------------------
\* MarzipanUi: parameter changes
\* ------------------------------------------------------------------------

\* BaseEditContainer.handleChange with a valid, non-empty text: setFromString
\* decodes it and calls set.
EditSet(name, v) ==
    LET o == set(params[name], v)
    IN  /\ params' = [params EXCEPT ![name] = o.c]
        /\ Notify(IF o.notified THEN 1 ELSE 0)
        /\ UNCHANGED << currentImg, currentParams, localTransform, loading,
                        imgError, loadingImg, imgs, history, canvas,
                        tempTransform, imgscrollOrigin, canvasFromFractal >>

\* BaseEditContainer.handleChange with the field cleared: setFromString
\* decodes "" to undefined and calls reset.
EditReset(name) ==
    LET o == reset(params[name])
    IN  /\ params' = [params EXCEPT ![name] = o.c]
        /\ Notify(IF o.notified THEN 1 ELSE 0)
        /\ UNCHANGED << currentImg, currentParams, localTransform, loading,
                        imgError, loadingImg, imgs, history, canvas,
                        tempTransform, imgscrollOrigin, canvasFromFractal >>

\* A handleChange that hands the text to the container without testing it.
handleChange_Unchecked(name, t) ==
    LET o == set(params[name], decodeString(name, t))
    IN  /\ params' = [params EXCEPT ![name] = o.c]
        /\ Notify(IF o.notified THEN 1 ELSE 0)
        /\ UNCHANGED << currentImg, currentParams, localTransform, loading,
                        imgError, loadingImg, imgs, history, canvas,
                        tempTransform, imgscrollOrigin, canvasFromFractal >>

\* BaseEditContainer.handleChange, the field of the parameter `name` holding
\* the text t: a text that is not valid is logged and dropped.
handleChange(name, t) ==
    IF ~valid(name, t)
    THEN Nothing
    ELSE LET o == setFromString(params[name], name, t)
         IN  /\ params' = [params EXCEPT ![name] = o.c]
             /\ Notify(IF o.notified THEN 1 ELSE 0)
             /\ UNCHANGED << currentImg, currentParams, localTransform, loading,
                             imgError, loadingImg, imgs, history, canvas,
                             tempTransform, imgscrollOrigin, canvasFromFractal >>

\* MarzipanUi.handlePreset, the select holding the name t of a preset.
handlePreset(t) ==
    LET o == setFromString(params.presets, "presets", t)
        a == applyPreset([params EXCEPT !.presets = o.c], TRUE)
    IN  /\ params' = a.p
        /\ Notify((IF o.notified THEN 1 ELSE 0) + a.n)
        /\ UNCHANGED << currentImg, currentParams, localTransform, loading,
                        imgError, loadingImg, imgs, history, canvas,
                        tempTransform, imgscrollOrigin, canvasFromFractal >>

\* A ResizeObserver callback that leaves the default of a ratio the user has
\* set.
Resize_OnlyIfUnset(size) ==
    LET o == IF canvas # size /\ params.ratio.value = Undef
             THEN setDefault(params.ratio, Num(size[1], size[2]))
             ELSE Outcome(params.ratio, FALSE)
    IN  /\ canvas' = size
        /\ params' = [params EXCEPT !.ratio = o.c]
        /\ Notify(IF o.notified THEN 1 ELSE 0)
        /\ canvasFromFractal' = redraw(size, currentImg, currentParams,
                                       localTransform, tempTransform,
                                       canvasFromFractal)
        /\ UNCHANGED << currentImg, currentParams, localTransform, loading,
                        imgError, loadingImg, imgs, history, tempTransform,
                        imgscrollOrigin >>

\* The ResizeObserver callback of firstUpdated, the canvas being laid out
\* with the client size `size`.
Resize(size) ==
    LET o == IF canvas # size
             THEN setDefault(params.ratio, Num(size[1], size[2]))
             ELSE Outcome(params.ratio, FALSE)
    IN  /\ canvas' = size
        /\ params' = [params EXCEPT !.ratio = o.c]
        /\ Notify(IF o.notified THEN 1 ELSE 0)
        /\ canvasFromFractal' = redraw(size, currentImg, currentParams,
                                       localTransform, tempTransform,
                                       canvasFromFractal)
        /\ UNCHANGED << currentImg, currentParams, localTransform, loading,
                        imgError, loadingImg, imgs, history, tempTransform,
                        imgscrollOrigin >>

\* MarzipanUi.handleLocationChange, on "popstate".
handleLocationChange(q) ==
    LET f == from(params, q)
    IN  /\ params' = f.p
        /\ IF FromThrows(q)
           THEN Queue(f.n) /\ Log("threw")
           ELSE Queue(f.n + 1) /\ Log("location")
        /\ UNCHANGED << currentImg, currentParams, localTransform, loading,
                        imgError, loadingImg, imgs, history, canvas,
                        tempTransform, imgscrollOrigin, canvasFromFractal >>


\* MarzipanUi.transform.  The callers assign tempTransform and
\* imgscrollOrigin before they call it.
transform(deltaTr) ==
    IF currentParams = Undef
    THEN /\ Log("quiet")
         /\ UNCHANGED << params, currentImg, currentParams, localTransform,
                         loading, imgError, reloadTimer, timers, loadingImg,
                         imgs, history, canvas, canvasFromFractal >>
    ELSE LET cp == currentParams[1]
             lt == Multiply(localTransform, Inverse(deltaTr))
         IN  /\ localTransform' = lt
             /\ IF lt = Identity
                THEN /\ Log("quiet")
                     /\ UNCHANGED << params, reloadTimer, timers,
                                     canvasFromFractal >>
                ELSE LET tr      == Inverse(lt)
                         center  == TransformPoint(tr, get(cp.x), get(cp.y), Whole(1))
                         sizeVec == TransformPoint(tr, get(cp.size), Whole(0), Whole(0))
                         ox == Events(set(params.x, center[1]))
                         oy == Events(set(params.y, center[2]))
                         os == Events(set(params.size, sizeVec[1]))
                     IN  /\ SizeInRange(sizeVec[1])
                         /\ ScaleInRange(lt)
                         /\ CentreInRange(center)
                         /\ params' = [params EXCEPT !.x = ox.c, !.y = oy.c,
                                                     !.size = os.c]
                         /\ Notify(ox.n + oy.n + os.n)
                         /\ canvasFromFractal' =
                                redraw(canvas, currentImg, currentParams, lt,
                                       tempTransform', canvasFromFractal)
             /\ UNCHANGED << currentImg, currentParams, loading, imgError,
                             loadingImg, imgs, history, canvas >>

\* fractalFromScreen.transformPoint(new DOMPointReadOnly(clientX, clientY))
screenToFractal(ffs, clientX, clientY) ==
    TransformPoint(ffs, clientX, clientY, Whole(1))

\* A resize that does not shift back.
resize_NoShiftBack(pos, scale) ==
    Multiply(Translate(pos[1], pos[2]), Scale(scale))

\* The matrix `resize` of zoom: centre on pos, scale, and shift back.
resize(pos, scale) ==
    Multiply(Multiply(Translate(pos[1], pos[2]), Scale(scale)),
             Translate(RSub(Whole(0), pos[1]), RSub(Whole(0), pos[2])))

\* MarzipanUi.zoom
zoom(clientX, clientY, scale) ==
    IF currentParams = Undef
    THEN Nothing
    ELSE LET pos == screenToFractal(fractalFromScreenTransform, clientX, clientY)
         IN  /\ UNCHANGED << tempTransform, imgscrollOrigin >>
             /\ transform(resize(pos, scale))

\* A wheel handler with the two factors exchanged.
handleWheel_Reversed(clientX, clientY, deltaY) ==
    zoom(clientX, clientY, IF deltaY > 0 THEN RDiv(Whole(1), Num(3, 2)) ELSE Num(3, 2))

\* MarzipanUi.handleWheel
handleWheel(clientX, clientY, deltaY) ==
    zoom(clientX, clientY, IF deltaY > 0 THEN Num(3, 2) ELSE RDiv(Whole(1), Num(3, 2)))

\* MarzipanUi.handleDblclick
handleDblclick(clientX, clientY) ==
    zoom(clientX, clientY, RDiv(Whole(1), Num(3, 2)))

\* MarzipanUi.calcScroll, for an event at the point (clientX, clientY).
calcScroll(clientX, clientY) ==
    IF imgscrollOrigin = Undef
    THEN Identity
    ELSE LET src == TransformPoint(fractalFromScreenTransform,
                                   imgscrollOrigin[1], imgscrollOrigin[2], Whole(1))
             dst == TransformPoint(fractalFromScreenTransform,
                                   clientX, clientY, Whole(1))
         IN  Translate(RSub(src[1], dst[1]), RSub(src[2], dst[2]))

\* MarzipanUi.handleMouseDown; buttons is event.buttons.
handleMouseDown(clientX, clientY, buttons) ==
    IF buttons % 2 = 0
    THEN Nothing
    ELSE /\ imgscrollOrigin' = << clientX, clientY >>
         /\ Log("quiet")
         /\ UNCHANGED << params, currentImg, currentParams, localTransform,
                         loading, imgError, reloadTimer, timers, loadingImg,
                         imgs, history, canvas, tempTransform,
                         canvasFromFractal >>

\* MarzipanUi.handleMouseUp
handleMouseUp(clientX, clientY, buttons) ==
    IF buttons % 2 = 1 \/ imgscrollOrigin = Undef
    THEN Nothing
    ELSE /\ imgscrollOrigin' = Undef
         /\ tempTransform' = Identity
         /\ transform(calcScroll(clientX, clientY))

\* A mouse-move handler that commits the drag as handleMouseUp does.
handleMouseMove_Commits(clientX, clientY) ==
    IF imgscrollOrigin = Undef
    THEN Nothing
    ELSE /\ UNCHANGED imgscrollOrigin
         /\ tempTransform' = Identity
         /\ transform(calcScroll(clientX, clientY))

\* MarzipanUi.handleMouseMove
handleMouseMove(clientX, clientY) ==
    IF imgscrollOrigin = Undef
    THEN Nothing
    ELSE LET tt == Inverse(calcScroll(clientX, clientY))
         IN  /\ tempTransform' = tt
             /\ canvasFromFractal' =
                    redraw(canvas, currentImg, currentParams, localTransform,
                           tt, canvasFromFractal)
             /\ Log("quiet")
             /\ UNCHANGED << params, currentImg, currentParams, localTransform,
                             loading, imgError, reloadTimer, timers, loadingImg,
                             imgs, history, canvas, imgscrollOrigin >>

\* A handleMouseOut that forgets the drag and leaves its shift on display.
handleMouseOut_KeepsShift ==
    IF imgscrollOrigin = Undef
    THEN Nothing
    ELSE /\ imgscrollOrigin' = Undef
         /\ canvasFromFractal' =
                redraw(canvas, currentImg, currentParams, localTransform,
                       tempTransform, canvasFromFractal)
         /\ Log("quiet")
         /\ UNCHANGED << params, currentImg, currentParams, localTransform,
                         loading, imgError, reloadTimer, timers, loadingImg,
                         imgs, history, canvas, tempTransform >>

\* MarzipanUi.handleMouseOut
handleMouseOut ==
    IF imgscrollOrigin = Undef
    THEN Nothing
    ELSE /\ imgscrollOrigin' = Undef
         /\ tempTransform' = Identity
         /\ canvasFromFractal' =
                redraw(canvas, currentImg, currentParams, localTransform,
                       Identity, canvasFromFractal)
         /\ Log("quiet")
         /\ UNCHANGED << params, currentImg, currentParams, localTransform,
                         loading, imgError, reloadTimer, timers, loadingImg,
                         imgs, history, canvas >>

\* ------------------------------------------------------------------------
\* MarzipanUi: the image-request scheduler
\* ------------------------------------------------------------------------

\* An <img> element created by doImageChange together with what its two
\* listeners close over: src is the element's src attribute as its getter
\* returns it, newURL and newParams are the constants of the same name, live
\* is the value this.params had when the element was created, and done tells
\* that the element's load or error event has been delivered.
Img(newURL, newParams, live) ==
    [ src       |-> Some(Resolve(newURL)),
      newURL    |-> newURL,
      newParams |-> newParams,
      live      |-> live,
      done      |-> FALSE ]

\* An element no listener will run for any more and no field of MarzipanUi
\* refers to, once the garbage collector has taken it: nothing it held can be
\* read again.
Gone ==
    [ src       |-> Undef,
      newURL    |-> url(NewParameters),
      newParams |-> NewParameters,
      live      |-> NewParameters,
      done      |-> TRUE ]

\* The elements after the load or error event of image i was delivered, cur
\* being the committed image then.  The element the event was delivered to
\* is kept as it is; the garbage collector takes the other elements no
\* listener will run for and the element does not display.
Delivered(i, cur) ==
    [ j \in 1..Len(imgs) |->
        IF j = i THEN [imgs[i] EXCEPT !.done = TRUE]
        ELSE IF imgs[j].done /\ j # cur THEN Gone
        ELSE imgs[j] ]

\* A listener that only tests that some load is in flight.
IsLatest_AnyInFlight(i) == loadingImg # 0

\* A listener without the test.
IsLatest_Unchecked(i) == TRUE

\* The test both listeners start with: this.loadingImg is still the element
\* the listener was registered on.
IsLatest(i) == loadingImg = i

\* A test that skips the load whenever an image is committed.
SameAsCurrent_AnyCommitted(newURL) == currentImg # 0

\* A test against the image requested last instead of the committed one.
SameAsCurrent_LastRequested(newURL) ==
    Len(imgs) > 0 /\ imgs[Len(imgs)].newURL = newURL

\* A test that never skips the load.
SameAsCurrent_Never(newURL) == FALSE

\* The first test of doImageChange: an image is committed and its src reads
\* as newURL.
SameAsCurrent(newURL) == currentImg # 0 /\ imgs[currentImg].src = Some(newURL)

\* A doImageChange that leaves the error indicator as it is.
doImageChange_KeepsError ==
    LET newURL == url(params)
    IN  IF SameAsCurrent(newURL)
        THEN /\ Log("skip")
             /\ UNCHANGED << params, currentImg, currentParams, localTransform,
                             loading, imgError, loadingImg, imgs, history, canvas,
                             tempTransform, imgscrollOrigin, canvasFromFractal >>
        ELSE LET newParams == copyFrom(NewParameters, params).p
                 cancelled == IF loadingImg # 0
                              THEN [imgs EXCEPT ![loadingImg].src = Undef]
                              ELSE imgs
             IN  /\ Len(imgs) < MaxLoads
                 /\ history' = history + 1
                 /\ imgs' = Append(cancelled, Img(newURL, newParams, params))
                 /\ loadingImg' = Len(imgs) + 1
                 /\ loading' = TRUE
                 /\ Log("dispatch")
                 /\ UNCHANGED << params, currentImg, currentParams, imgError,
                                 localTransform, canvas, tempTransform,
                                 imgscrollOrigin, canvasFromFractal >>

\* MarzipanUi.doImageChange
doImageChange ==
    LET newURL == url(params)
    IN  IF SameAsCurrent(newURL)
        THEN /\ Log("skip")
             /\ UNCHANGED << params, currentImg, currentParams, localTransform,
                             loading, imgError, loadingImg, imgs, history, canvas,
                             tempTransform, imgscrollOrigin, canvasFromFractal >>
        ELSE LET newParams == copyFrom(NewParameters, params).p
                 cancelled == IF loadingImg # 0
                              THEN [imgs EXCEPT ![loadingImg].src = Undef]
                              ELSE imgs
             IN  /\ Len(imgs) < MaxLoads
                 /\ history' = history + 1
                 /\ imgs' = Append(cancelled, Img(newURL, newParams, params))
                 /\ loadingImg' = Len(imgs) + 1
                 /\ imgError' = FALSE
                 /\ loading' = TRUE
                 /\ Log("dispatch")
                 /\ UNCHANGED << params, currentImg, currentParams,
                                 localTransform, canvas, tempTransform,
                                 imgscrollOrigin, canvasFromFractal >>

\* The timeout scheduled by queueImageChange expires.
TimerFires(t) ==
    /\ t \in timers
    /\ timers' = timers \ {t}
    /\ UNCHANGED reloadTimer
    /\ doImageChange

\* The "load" listener of image i runs.
ImgLoad(i) ==
    /\ i \in 1..Len(imgs)
    /\ ~imgs[i].done
    /\ IF ~IsLatest(i)
       THEN /\ imgs' = Delivered(i, currentImg)
            /\ Log("stale")
            /\ UNCHANGED << currentImg, currentParams, localTransform, loading,
                            imgError, loadingImg, canvasFromFractal >>
       ELSE /\ imgs' = Delivered(i, i)
            /\ loadingImg' = 0
            /\ currentImg' = i
            /\ currentParams' = Some(imgs[i].newParams)
            /\ localTransform' = Identity
            /\ canvasFromFractal' =
                   redraw(canvas, i, Some(imgs[i].newParams), Identity,
                          tempTransform, canvasFromFractal)
            /\ imgError' = FALSE
            /\ loading' = FALSE
            /\ Log("commit")
    /\ UNCHANGED << params, reloadTimer, timers, history, canvas,
                    tempTransform, imgscrollOrigin >>

\* An error listener that also drops the image on display.
ImgError_DropsImage(i) ==
    /\ i \in 1..Len(imgs)
    /\ ~imgs[i].done
    /\ IF ~IsLatest(i)
       THEN /\ imgs' = Delivered(i, currentImg)
            /\ Log("stale")
            /\ UNCHANGED << currentImg, currentParams, loading, imgError,
                            loadingImg >>
       ELSE /\ imgs' = Delivered(i, 0)
            /\ loadingImg' = 0
            /\ currentImg' = 0
            /\ currentParams' = Undef
            /\ imgError' = TRUE
            /\ loading' = FALSE
            /\ Log("fail")
    /\ UNCHANGED << params, localTransform, reloadTimer, timers, history,
                    canvas, tempTransform, imgscrollOrigin, canvasFromFractal >>

\* An error listener that leaves the spinner on.
ImgError_KeepsLoading(i) ==
    /\ i \in 1..Len(imgs)
    /\ ~imgs[i].done
    /\ imgs' = Delivered(i, currentImg)
    /\ IF ~IsLatest(i)
       THEN /\ Log("stale")
            /\ UNCHANGED << loading, imgError, loadingImg >>
       ELSE /\ loadingImg' = 0
            /\ imgError' = TRUE
            /\ Log("fail")
            /\ UNCHANGED loading
    /\ UNCHANGED << params, currentImg, currentParams, localTransform,
                    reloadTimer, timers, history, canvas, tempTransform,
                    imgscrollOrigin, canvasFromFractal >>

\* The "error" listener of image i runs.
ImgError(i) ==
    /\ i \in 1..Len(imgs)
    /\ ~imgs[i].done
    /\ imgs' = Delivered(i, currentImg)
    /\ IF ~IsLatest(i)
       THEN /\ Log("stale")
            /\ UNCHANGED << loading, imgError, loadingImg >>
       ELSE /\ loadingImg' = 0
            /\ imgError' = TRUE
            /\ loading' = FALSE
            /\ Log("fail")
    /\ UNCHANGED << params, currentImg, currentParams, localTransform,
                    reloadTimer, timers, history, canvas, tempTransform,
                    imgscrollOrigin, canvasFromFractal >>

\* The snackbar is dismissed with its close button, or times out.
DismissError ==
    /\ imgError
    /\ imgError' = FALSE
    /\ Log("quiet")
    /\ UNCHANGED << params, currentImg, currentParams, localTransform, loading,
                    reloadTimer, timers, loadingImg, imgs, history, canvas,
                    tempTransform, imgscrollOrigin, canvasFromFractal >>

\* ------------------------------------------------------------------------
\* Specification
\* ------------------------------------------------------------------------

Next ==
    \/ \E n \in PropNames : \E v \in EditValues[n] : EditSet(n, v)
    \/ \E n \in ClearedFields : EditReset(n)
    \/ \E size \in CanvasSizes : Resize(size)
    \/ \E q \in LocationQueries : handleLocationChange(q)
    \/ \E d \in WheelDeltas : handleWheel(ScreenCentre[1], ScreenCentre[2], d)
    \/ \E t \in 1..MaxTimers : TimerFires(t)
    \/ \E i \in 1..MaxLoads : ImgLoad(i)
    \/ \E i \in 1..MaxLoads : ImgError(i)
    \/ DismissError

Spec == Init /\ [][Next]_vars

\* What a step of TimerFires(t) does to the timeouts, and what a step of
\* ImgLoad(i) or ImgError(i) does to the elements when i is the load in
\* flight, the one request that was not cancelled: no other step of the
\* element takes a timeout away without scheduling one, or delivers an event.
TimerExpires(t) == t \in timers /\ timers' = timers \ {t}

ImgSettles(i) ==
    /\ i \in 1..Len(imgs)
    /\ ~imgs[i].done
    /\ loadingImg = i
    /\ imgs' \in { Delivered(i, currentImg), Delivered(i, i) }

\* The element with the scheduling of the browser: a timeout that is
\* scheduled expires, and an image whose request is not cancelled gets its
\* load or its error event.  A behaviour in which MaxLoads keeps a timeout
\* from firing is not one of the element, and is not one of FairSpec.
FairSpec ==
    /\ Spec
    /\ \A t \in 1..MaxTimers : WF_timers(TimerExpires(t))
    /\ \A i \in 1..MaxLoads : WF_imgs(ImgSettles(i))

\* The parameters of an element constructed on a location without a query,
\* once the ResizeObserver has delivered the size of the canvas.
LaidOut == [NewParameters EXCEPT !.ratio = setDefault(@, Num(900, 600)).c]

\* Two states the element reaches without a gesture (Init, Resize, and then
\* TimerFires and ImgLoad): laid out with the first image change queued, and
\* idle with the first image on display.
GestureInit ==
    /\ params = LaidOut
    /\ reloadTimer = 1
    /\ localTransform = Identity
    /\ loading = FALSE
    /\ imgError = FALSE
    /\ loadingImg = 0
    /\ canvas = << 900, 600 >>
    /\ tempTransform = Identity
    /\ imgscrollOrigin = Undef
    /\ heldTransform = IdentityTransform
    /\ \/ /\ timers = {1}
          /\ currentImg = 0
          /\ currentParams = Undef
          /\ imgs = << >>
          /\ history = 0
          /\ canvasFromFractal = Undef
          /\ last = "notified"
       \/ /\ timers = {}
          /\ currentImg = 1
          /\ currentParams = Some(LaidOut)
          /\ imgs = << [Img(url(LaidOut), LaidOut, LaidOut) EXCEPT !.done = TRUE] >>
          /\ history = 1
          /\ canvasFromFractal =
                 Some(ViewMatrix(<< 900, 600 >>, LaidOut, Identity, Identity))
          /\ last = "commit"

\* The element under gestures, between two runs of doImageChange: the wheel
\* and pointer handlers, and an edit of the size.
GestureNext ==
    \/ \E v \in TypedSizes : EditSet("size", v)
    \/ \E p \in ScreenPoints : \E d \in WheelDeltas : handleWheel(p[1], p[2], d)
    \/ \E p \in ScreenPoints : handleDblclick(p[1], p[2])
    \/ \E p \in ScreenPoints : \E b \in Buttons : handleMouseDown(p[1], p[2], b)
    \/ \E p \in ScreenPoints : handleMouseMove(p[1], p[2])
    \/ \E p \in ScreenPoints : \E b \in Buttons : handleMouseUp(p[1], p[2], b)
    \/ handleMouseOut

GestureSpec == GestureInit /\ [][GestureNext]_vars

\* The texts a user types into the edit fields, per parameter; the empty
\* text clears the field.
EditTexts ==
    [ n \in PropNames |->
        CASE n = "maxiter" -> { << >>, << "5", "0" >>, << "-", "5" >> }
          [] n = "type"    -> { << >>, << "julia" >> }
          [] n = "size"    -> { << >>, << "-", "3" >> }
          [] n = "ratio"   -> { << >>, << "2", ".", "5" >> }
          [] n = "pixels"  -> { << >>, << "0" >> }
          [] OTHER         -> {} ]

\* The presets a user selects.
PresetTexts == { << "Julia" >>, << "Mandelbrot" >> }

\* The query strings of the locations the history moves to: no query, the
\* query maxiter=50&type=julia, a preset, a value that is its default, and
\* two queries with a text that does not decode (after a preset, and alone).
StoreQueries ==
    { NoQuery,
      [ n \in {"maxiter", "type"} |->
          IF n = "maxiter" THEN << "5", "0" >> ELSE << "julia" >> ],
      [ n \in {"presets"} |-> << "Julia" >> ],
      [ n \in {"type"} |-> << "mandelbrot" >> ],
      [ n \in {"presets", "type"} |->
          IF n = "presets" THEN << "Julia" >> ELSE << "foo" >> ],
      [ n \in {"x"} |-> << "a", "b", "c" >> ] }

\* The client sizes the canvas is laid out with while the parameters are
\* edited.
StoreCanvasSizes == { << 900, 600 >>, << 800, 500 >> }

\* The element while its parameters are edited, between two runs of
\* doImageChange: from the state after the constructor, or from one of the
\* states of GestureInit.
StoreInit ==
    \/ /\ \E q \in StoreQueries : Constructed(q)
       /\ heldTransform = IdentityTransform
    \/ GestureInit

StoreNext ==
    \/ \E n \in PropNames : \E t \in EditTexts[n] : handleChange(n, t)
    \/ \E t \in PresetTexts : handlePreset(t)
    \/ \E size \in StoreCanvasSizes : Resize(size)
    \/ \E q \in StoreQueries : handleLocationChange(q)

StoreSpec == StoreInit /\ [][StoreNext]_vars

\* The parameters of an element constructed on a location with the query
\* size=0, once the ResizeObserver has delivered the size of the canvas.
Degenerate == [LaidOut EXCEPT !.size = setFromString(@, "size", << "0" >>).c]

\* The state that element reaches without a gesture (Init, Resize, and then
\* TimerFires and ImgLoad): idle with the first image on display, which was
\* requested for a window of size 0.
DegenerateIdle ==
    /\ params = Degenerate
    /\ reloadTimer = 1
    /\ timers = {}
    /\ currentImg = 1
    /\ currentParams = Some(Degenerate)
    /\ localTransform = Identity
    /\ loading = FALSE
    /\ imgError = FALSE
    /\ loadingImg = 0
    /\ imgs = << [Img(url(Degenerate), Degenerate, Degenerate) EXCEPT !.done = TRUE] >>
    /\ history = 1
    /\ canvas = << 900, 600 >>
    /\ tempTransform = Identity
    /\ imgscrollOrigin = Undef
    /\ canvasFromFractal =
           Some(ViewMatrix(<< 900, 600 >>, Degenerate, Identity, Identity))
    /\ last = "commit"
    /\ heldTransform = IdentityTransform

\* The element under gestures, with a window of size 3 or a window of size 0
\* on display.
DegenerateInit == GestureInit \/ DegenerateIdle

DegenerateSpec == DegenerateInit /\ [][GestureNext]_vars

\* The Transforms a computation with the geometry module starts from, the
\* Transforms it composes with, and the points it translates and scales by.
StartTransforms ==
    { IdentityTransform,
      << Whole(1), Whole(1), Whole(0),
         Whole(1), Whole(1), Whole(0),
         Whole(0), Whole(0), Whole(1) >> }

WithTransforms ==
    { << Whole(1), Whole(1), Whole(0),
         Whole(0), Whole(1), Whole(0),
         Whole(0), Whole(0), Whole(1) >> }

TranslateDeltas == { << Whole(1), Whole(-1) >> }

ScaleFactors == { << Whole(2), Whole(1) >>, << Whole(0), Whole(1) >> }

\* The points a caller applies a Transform to.
ApplyPoints ==
    { << Whole(0), Whole(0) >>, << Whole(1), Whole(2) >>,
      << Whole(-1), Num(1, 2) >> }

\* A computation is followed while the entries of the Transform keep
\* numerators and denominators of at most MaxEntry.
MaxEntry == 3

EntriesInRange(m) ==
    \A i \in 1..9 : Abs(m[i][1]) <= MaxEntry /\ m[i][2] <= MaxEntry

\* One call on the Transform held, which then holds the result.
Held(m) ==
    /\ EntriesInRange(m)
    /\ heldTransform' = m
    /\ UNCHANGED << params, currentImg, currentParams, localTransform, loading,
                    imgError, reloadTimer, timers, loadingImg, imgs, history,
                    canvas, tempTransform, imgscrollOrigin, canvasFromFractal,
                    last >>

CallWith(t) == Held(Transform_with(heldTransform, t))

CallInverse == Held(Transform_inverse(heldTransform))

CallTranslate(delta) == Held(Transform_translate(heldTransform, delta))

CallScale(sc) == Held(Transform_scale(heldTransform, sc))

\* A caller of the geometry module: it starts from a Transform and calls
\* with, inverse, translate and scale on what it holds.
TransformInit ==
    /\ Constructed(NoQuery)
    /\ heldTransform \in StartTransforms

TransformNext ==
    \/ \E t \in WithTransforms : CallWith(t)
    \/ CallInverse
    \/ \E delta \in TranslateDeltas : CallTranslate(delta)
    \/ \E sc \in ScaleFactors : CallScale(sc)

TransformSpec == TransformInit /\ [][TransformNext]_vars

TypeOK ==
    /\ Len(heldTransform) = 9
    /\ currentImg \in 0..Len(imgs)
    /\ loadingImg \in 0..Len(imgs)
    /\ Len(imgs) <= MaxLoads
    /\ loading \in BOOLEAN
    /\ imgError \in BOOLEAN

\* ------------------------------------------------------------------------
\* Vocabulary of the properties
\* ------------------------------------------------------------------------

\* A step in which the debounce timeout expired and doImageChange ran.
Fired == timers' # timers /\ timers' \subseteq timers

\* A step in which doImageChange created an image.
Dispatched == Len(imgs') = Len(imgs) + 1

\* A step in which the load or error event of image i was delivered.
Completes(i) == i \in 1..Len(imgs) /\ ~imgs[i].done /\ imgs'[i].done

\* The image a dispatching step created was built from the parameters p.
BuiltFrom(p) ==
    /\ Dispatched
    /\ imgs'[Len(imgs')].newURL = url(p)
    /\ imgs'[Len(imgs')].src = Some(Resolve(url(p)))
    /\ imgs'[Len(imgs')].newParams = p
    /\ loadingImg' = Len(imgs')

\* The committed image reads as the URL of the live parameters.
UrlIsCommitted == currentImg # 0 /\ imgs[currentImg].src = Some(url(params))

\* ------------------------------------------------------------------------
\* C1
\* ------------------------------------------------------------------------

\* C1: last request wins.  Whenever the committed image or the committed
\* parameters change, the image committed is the one created last, its event
\* is delivered in that very step, it was created after the image committed
\* before, and the committed parameters are its snapshot: a load that was
\* followed by another load before it completed is never committed, in
\* whatever order the two complete.
C1_LastRequestWins ==
    [][ (currentImg' # currentImg \/ currentParams' # currentParams) =>
            /\ Len(imgs') = Len(imgs)
            /\ currentImg' = Len(imgs)
            /\ Completes(Len(imgs))
            /\ currentImg' > currentImg
            /\ currentParams' = Some(imgs[Len(imgs)].newParams) ]_vars

\* The older of two loads completed after the newer one was committed, and
\* the newer one is still the committed image.
C1_Witness == last = "stale" /\ Len(imgs) = 2 /\ currentImg = 2 /\ imgs[1].done

\* ------------------------------------------------------------------------
\* C2
\* ------------------------------------------------------------------------

\* C2: a stale completion is discarded silently.  A step that delivers the
\* load or error event of an image that is not this.loadingImg leaves
\* currentImg, currentParams, localTransform, loadingImg, loading and the
\* error indicator as they were.
C2_StaleDiscarded ==
    [][ \A i \in 1..MaxLoads :
            (Completes(i) /\ loadingImg # i) =>
                UNCHANGED << currentImg, currentParams, localTransform,
                             loadingImg, loading, imgError >> ]_vars

\* A superseded load completed while its successor is still in flight.
C2_Witness == last = "stale" /\ loadingImg = 2 /\ loading /\ imgs[1].done

\* ------------------------------------------------------------------------
\* C3
\* ------------------------------------------------------------------------

\* C3 as claimed: every run of doImageChange dispatches exactly one request,
\* built from the parameters as the last change left them.
C3_ExactlyOneRequest == [][ Fired => BuiltFrom(params) ]_vars

\* C3, amended: debounce collapsing.  A handler that notified leaves exactly
\* one timeout scheduled, however many events it and the handlers before it
\* dispatched, so doImageChange runs once for the burst; images are created
\* by that run only; and the run creates no image when the URL of the live
\* parameters reads as the committed image's src, and otherwise exactly one,
\* whose URL and snapshot are those of the parameters after the last change.
C3_Collapsing ==
    [][ /\ (last' \in {"notified", "location"} => timers' = {reloadTimer'})
        /\ (imgs' # imgs /\ Len(imgs') # Len(imgs) => Fired)
        /\ (Fired =>
              /\ Cardinality(timers) = 1
              /\ timers' = {}
              /\ IF UrlIsCommitted THEN imgs' = imgs ELSE BuiltFrom(params)) ]_vars

\* The first request ever dispatched was built after two handlers (an edit
\* of the address and a resize) had changed the parameters since the
\* constructor queued the first image change, with no firing between them.
C3_Witness ==
    /\ last = "dispatch"
    /\ Len(imgs) = 1
    /\ imgs[1].live.address.value = AbsoluteAddress
    /\ imgs[1].live.ratio.default = Num(3, 2)
    /\ imgs[1].newParams = params

\* ------------------------------------------------------------------------
\* C4
\* ------------------------------------------------------------------------

\* C4: when the debounce timeout expires while a load is in flight, that
\* load stops being this.loadingImg, the only element a listener commits.
C4_InFlightMarkedStale ==
    [][ (Fired /\ loadingImg # 0) => loadingImg' # loadingImg ]_vars

\* ------------------------------------------------------------------------
\* C5
\* ------------------------------------------------------------------------

\* C5: copy-on-dispatch.  The snapshot and the URL an image carries are those
\* of the live parameters at the moment the image was created, whatever
\* happened to the live parameters since, and the committed parameters are
\* the snapshot of the committed image, whose src is the URL of that snapshot
\* as the browser resolves it.
C5_CopyOnDispatch ==
    /\ \A i \in 1..Len(imgs) :
          /\ imgs[i].newParams = imgs[i].live
          /\ imgs[i].newURL = url(imgs[i].live)
    /\ currentImg = 0 => currentParams = Undef
    /\ currentImg # 0 =>
          /\ currentParams = Some(imgs[currentImg].live)
          /\ imgs[currentImg].src = Some(Resolve(url(imgs[currentImg].live)))

\* A load was just committed and the live parameters are no longer those of
\* its snapshot: they were changed between its dispatch and its completion.
C5_Witness ==
    /\ last = "commit"
    /\ currentImg # 0
    /\ currentParams # Some(params)
    /\ url(currentParams[1]) # url(params)

\* ------------------------------------------------------------------------
\* C6
\* ------------------------------------------------------------------------

C7_OneTimer == Cardinality(timers) <= 1 /\ timers \subseteq {reloadTimer}

\* Two handlers notified one after the other before any timeout expired,
\* each replacing the timeout scheduled before it, and one is scheduled.
C7_Witness ==
    /\ last = "notified"
    /\ Len(imgs) = 0
    /\ params.address.value = AbsoluteAddress
    /\ params.ratio.default = Num(3, 2)
    /\ timers = {reloadTimer}

\* ------------------------------------------------------------------------
\* C8
\* ------------------------------------------------------------------------

\* A handler called queueImageChange.
Requeued == last' \in {"notified", "location"}

NoChangeNoEvent ==
    \A n \in PropNames :
        /\ ~set(params[n], maybe(params[n])).notified
        /\ ~setDefault(params[n], params[n].default).notified
        /\ ~ContainerCopyFrom(params[n], params[n]).notified
        /\ (maybe(params[n]) = Undef => ~reset(params[n]).notified)

C9_FailureKeepsImage ==
    [][ \A i \in 1..MaxLoads :
            (ImgError(i) /\ loadingImg = i) =>
                /\ i = Len(imgs)
                /\ imgError'
                /\ ~loading'
                /\ loadingImg' = 0
                /\ UNCHANGED << currentImg, currentParams, localTransform,
                                params >> ]_vars

\* The latest load failed while an image is on display under a gesture
\* transform.
C9_Witness ==
    /\ last = "fail"
    /\ imgError
    /\ ~loading
    /\ currentImg # 0
    /\ localTransform # Identity

\* ------------------------------------------------------------------------
\* C10
\* ------------------------------------------------------------------------

\* C10 as claimed: with the error indicator up (the latest load failed and
\* nothing was dispatched since), the next run of doImageChange dispatches a
\* load for the live parameters, hides the indicator and sets loading.
C10_RetryAlways ==
    [][ (Fired /\ imgError) =>
            BuiltFrom(params) /\ ~imgError' /\ loading' ]_vars

\* C10, amended: a run of doImageChange dispatches a load for the live
\* parameters, hides the error indicator and sets loading whenever the URL
\* of the live parameters is not the src of the committed image - whether or
\* not a load failed before, and with whatever URL; when it is that src, the
\* run dispatches nothing and leaves the indicator as it is.
C10_Retry ==
    [][ Fired =>
            IF UrlIsCommitted
            THEN UNCHANGED << imgs, imgError, loading >>
            ELSE BuiltFrom(params) /\ ~imgError' /\ loading' ]_vars

\* The first load failed (it was never superseded and never committed) and
\* doImageChange just dispatched a second load for the same URL.
C10_Witness ==
    /\ last = "dispatch"
    /\ Len(imgs) = 2
    /\ imgs[1].done
    /\ imgs[1].src # Undef
    /\ currentImg = 0
    /\ imgs[2].newURL = imgs[1].newURL
    /\ loading
    /\ ~imgError

\* ------------------------------------------------------------------------
\* Vocabulary of the gesture properties
\* ------------------------------------------------------------------------

\* The window a Parameters object describes.
Window(p) == << get(p.x), get(p.y), get(p.size), get(p.ratio) >>

\* A step in which a load listener adopted its image.
Commits == currentImg' # currentImg

\* The fractal-space point under the screen point p, as
\* fractalFromScreenTransform gives it before and after a step.
Under(p) == screenToFractal(fractalFromScreenTransform, p[1], p[2])
UnderAfter(p) ==
    screenToFractal(FractalFromScreen(canvas', canvasFromFractal'), p[1], p[2])

\* ------------------------------------------------------------------------
\* C11
\* ------------------------------------------------------------------------

\* C11: when a load commits, localTransform becomes the identity and the
\* committed window (x, y, size and ratio of currentParams) is the window of
\* the live parameters at that moment.
C11_CommitMatchesLive ==
    [][ Commits =>
            /\ localTransform' = Identity
            /\ Window(currentParams'[1]) = Window(params') ]_vars

\* ------------------------------------------------------------------------
\* C12
\* ------------------------------------------------------------------------

\* The live window after a gesture is delta applied to the live window
\* before it, delta scaling by the factor f.
Composes(delta, f) ==
    /\ << get(params'.x), get(params'.y) >> =
           TransformPoint(delta, get(params.x), get(params.y), Whole(1))
    /\ get(params'.size) = RMul(get(params.size), f)

\* C12: gestures compose onto the live window.  With an image on display, a
\* zoom by the factor f at the screen point p moves the live centre to
\* resize(pos, f) applied to the live centre before the call, pos being the
\* point under p, and multiplies the live size by f; the end of a drag at p
\* moves the live centre by the translation of calcScroll and keeps the size.
C12_GesturesCompose ==
    [][ \A p \in ScreenPoints :
            /\ \A f \in ZoomFactors :
                  (zoom(p[1], p[2], f) /\ currentParams # Undef) =>
                      Composes(resize(Under(p), f), f)
            /\ (handleMouseUp(p[1], p[2], 0) /\ imgscrollOrigin # Undef
                                             /\ currentParams # Undef) =>
                      Composes(calcScroll(p[1], p[2]), Whole(1)) ]_vars

\* ------------------------------------------------------------------------
\* C13
\* ------------------------------------------------------------------------

\* C13: zoom fixed point.  With an image on display, the fractal-space point
\* fractalFromScreenTransform gives for the screen point p is the same before
\* and after a zoom at p.
C13_ZoomFixedPoint ==
    [][ \A p \in ScreenPoints : \A f \in ZoomFactors :
            (zoom(p[1], p[2], f) /\ currentParams # Undef) =>
                UnderAfter(p) = Under(p) ]_vars

\* ------------------------------------------------------------------------
\* C14
\* ------------------------------------------------------------------------

\* C14: no-op click.  A handleMouseUp with the button released, at the
\* screen point the preceding handleMouseDown recorded, changes no parameter,
\* starts no debounce timeout and creates no image.
C14_NoOpClick ==
    [][ \A p \in ScreenPoints :
            (handleMouseUp(p[1], p[2], 0) /\ imgscrollOrigin = p) =>
                UNCHANGED << params, timers, reloadTimer, imgs >> ]_vars

\* ------------------------------------------------------------------------
\* C15
\* ------------------------------------------------------------------------

\* C15: handleMouseMove is display-only.  Whether or not a drag is under
\* way, the handler changes nothing but tempTransform and canvasFromFractal:
\* the parameters, localTransform, the drag origin, the debounce timeout,
\* the images and the committed image are as they were.  handleMouseOut
\* leaves the parameters alone too: only handleMouseUp writes a drag into
\* them.
C15_MoveIsDisplayOnly ==
    [][ /\ \A p \in ScreenPoints :
              handleMouseMove(p[1], p[2]) =>
                  UNCHANGED << params, localTransform, imgscrollOrigin, timers,
                               reloadTimer, imgs, loadingImg, loading, history,
                               currentImg, currentParams, canvas >>
        /\ handleMouseOut =>
              UNCHANGED << params, localTransform, timers, reloadTimer, imgs >> ]_vars

\* A drag is under way over the first image, the pointer has moved away from
\* where the button went down, and the parameters are still those of the
\* image: the move was drawn and nothing else.
C15_Witness ==
    /\ imgscrollOrigin # Undef
    /\ tempTransform # Identity
    /\ currentParams = Some(params)
    /\ localTransform = Identity
    /\ canvasFromFractal =
           Some(ViewMatrix(canvas, params, Identity, tempTransform))
    /\ timers = {}

\* ------------------------------------------------------------------------
\* C16
\* ------------------------------------------------------------------------

\* C16: canvasFromFractal is never stale.  With an image committed,
\* canvasFromFractal is the matrix redraw builds from the canvas size,
\* currentParams, localTransform and tempTransform as they are now.
C16_NeverStale ==
    currentParams # Undef =>
        canvasFromFractal =
            Some(ViewMatrix(canvas, currentParams[1], localTransform, tempTransform))

\* ------------------------------------------------------------------------
\* C17
\* ------------------------------------------------------------------------

GetSize(p) == get(p.size)

\* C17: zoom direction.  With an image on display, handleWheel with
\* deltaY > 0 strictly increases the live size and handleDblclick strictly
\* decreases it; when localTransform is the identity the new size is the old
\* one times 3/2, respectively times 2/3.
C17_ZoomDirection ==
    [][ \A p \in ScreenPoints :
            /\ (handleWheel(p[1], p[2], 1) /\ currentParams # Undef) =>
                  /\ RLess(GetSize(params), GetSize(params'))
                  /\ localTransform = Identity =>
                        GetSize(params') = RMul(GetSize(params), Num(3, 2))
            /\ (handleDblclick(p[1], p[2]) /\ currentParams # Undef) =>
                  /\ RLess(GetSize(params'), GetSize(params))
                  /\ localTransform = Identity =>
                        GetSize(params') = RMul(GetSize(params), Num(2, 3)) ]_vars

\* ------------------------------------------------------------------------
\* C18, C19
\* ------------------------------------------------------------------------

\* An image is fully loaded and no gesture is pending: no load is in flight,
\* the committed parameters describe the live window, localTransform and
\* tempTransform are the identity.
FullyLoaded ==
    /\ currentParams # Undef
    /\ currentImg # 0
    /\ loadingImg = 0
    /\ Window(currentParams[1]) = Window(params)
    /\ localTransform = Identity
    /\ tempTransform = Identity

\* The committed window has the aspect ratio of the canvas.
FillsCanvas ==
    /\ currentParams # Undef
    /\ get(currentParams[1].ratio) = Num(canvas[1], canvas[2])

\* The wheel event of C18 and C19: deltaY > 0 at the middle of the canvas.
WheelOutAtCentre == handleWheel(ScreenCentre[1], ScreenCentre[2], 1)

\* C18 as claimed: the event halves the live size.
C18_WheelHalves ==
    [][ (FullyLoaded /\ WheelOutAtCentre) =>
            GetSize(params') = RDiv(GetSize(params), Whole(2)) ]_vars

\* C18, amended: with an image fully loaded and no gesture pending, a wheel
\* event with deltaY > 0 at the middle of the canvas multiplies the live
\* size by 3/2.
C18_WheelGrows ==
    [][ (FullyLoaded /\ WheelOutAtCentre) =>
            GetSize(params') = RMul(GetSize(params), Num(3, 2)) ]_vars

\* The image on display was loaded for the size 2 and a wheel event over it
\* brought the live size to 3.
C18_Witness ==
    /\ last = "notified"
    /\ currentParams # Undef
    /\ GetSize(currentParams[1]) = Whole(2)
    /\ GetSize(params) = Whole(3)
    /\ params.size.value = Whole(3)
    /\ localTransform # Identity
    /\ tempTransform = Identity
    /\ loadingImg = 0

Gesture ==
    \E p \in ScreenPoints :
        \/ \E d \in WheelDeltas : handleWheel(p[1], p[2], d)
        \/ handleDblclick(p[1], p[2])
        \/ \E b \in Buttons : handleMouseDown(p[1], p[2], b)
        \/ handleMouseMove(p[1], p[2])
        \/ \E b \in Buttons : handleMouseUp(p[1], p[2], b)
        \/ handleMouseOut

\* C20: gestures write only the window.  A gesture handler changes at most
\* the values of x, y and size: every other parameter and every default are
\* as they were, and so are the committed parameters.
C20_GesturesWriteWindow ==
    [][ Gesture =>
            /\ \A n \in PropNames :
                  /\ params'[n].default = params[n].default
                  /\ n \notin {"x", "y", "size"} => params'[n] = params[n]
            /\ currentParams' = currentParams ]_vars

\* A gesture moved and resized the live window over the first image, whose
\* parameters are untouched.
C20_Witness ==
    /\ last = "notified"
    /\ currentParams = Some(LaidOut)
    /\ params.x.value # Undef
    /\ params.y.value # Undef
    /\ params.size.value = Whole(2)
    /\ get(params.x) # get(LaidOut.x)
    /\ \A n \in PropNames \ {"x", "y", "size"} : params[n] = LaidOut[n]

\* ------------------------------------------------------------------------
\* C21
\* ------------------------------------------------------------------------

\* C21: before the first successful load.  While no image is committed
\* (currentParams is undefined) canvasFromFractal is undefined and
\* fractalFromScreenTransform is the identity, and a step of a gesture
\* handler changes no parameter, leaves the debounce timeout and the images
\* as they are, and leaves canvasFromFractal undefined (redraw returns).
C21_NoImageNoEffect ==
    [][ (currentParams = Undef /\ Gesture) =>
            /\ canvasFromFractal = Undef
            /\ fractalFromScreenTransform = Identity
            /\ canvasFromFractal' = Undef
            /\ UNCHANGED << params, reloadTimer, timers, imgs, loadingImg,
                            loading, history, currentImg, currentParams,
                            localTransform >> ]_vars

\* No image is committed, the button went down on the canvas and the pointer
\* moved: handleMouseMove ran calcScroll and redraw, and the parameters are
\* those the element was laid out with.
C21_Witness ==
    /\ currentParams = Undef
    /\ currentImg = 0
    /\ imgscrollOrigin # Undef
    /\ tempTransform # Identity
    /\ params = LaidOut
    /\ last = "quiet"

\* ------------------------------------------------------------------------
\* C22
\* ------------------------------------------------------------------------

\* The view is redrawn for the canvas size `size`.
Redrawn(size) ==
    currentParams # Undef =>
        canvasFromFractal' =
            Some(ViewMatrix(size, currentParams[1], localTransform, tempTransform))

HasGeometry(u, p) ==
    /\ RAdd(u.left, u.right) = RMul(Whole(2), get(p.x))
    /\ RSub(u.right, u.left) = get(p.size)
    /\ RAdd(u.top, u.bottom) = RMul(Whole(2), get(p.y))
    /\ RMul(RSub(u.bottom, u.top), get(p.ratio)) = get(p.size)
    /\ u.width = get(p.pixels)
    /\ u.height[2] = 1
    /\ RLeq(RSub(u.height, Num(1, 2)), RDiv(get(p.pixels), get(p.ratio)))
    /\ RLess(RDiv(get(p.pixels), get(p.ratio)), RAdd(u.height, Num(1, 2)))

\* The window and the pixels of the claim's example.
IsExample(p) ==
    /\ get(p.x) = Num(-1, 2)
    /\ get(p.y) = Whole(0)
    /\ get(p.size) = Whole(3)
    /\ get(p.ratio) = Num(3, 2)
    /\ get(p.pixels) = Whole(900)

\* C23: request geometry.  In every state, the request url() builds from the
\* live parameters has their geometry, and so has every request that was
\* dispatched for the parameters it was built from; for x = -0.5, y = 0,
\* size = 3, ratio = 1.5 and pixels = 900 it has left = -2, right = 1,
\* top = -1, bottom = 1 and height = 600.
C23_RequestGeometry ==
    /\ HasGeometry(url(params), params)
    /\ \A i \in 1..Len(imgs) : HasGeometry(imgs[i].newURL, imgs[i].live)
    /\ IsExample(params) =>
          /\ url(params).left = Whole(-2)
          /\ url(params).right = Whole(1)
          /\ url(params).top = Whole(-1)
          /\ url(params).bottom = Whole(1)
          /\ url(params).width = Whole(900)
          /\ url(params).height = Whole(600)

\* The first image was requested for the parameters of the example, with
\* the window from -2 to 1 and from -1 to 1 and 900 by 600 pixels; the canvas
\* was then laid out 800 by 500, and the request for the live parameters has
\* the height round(900 / 1.6) = round(562.5) = 563.
C23_Witness ==
    /\ Len(imgs) = 1
    /\ IsExample(imgs[1].live)
    /\ imgs[1].newURL.left = Whole(-2)
    /\ imgs[1].newURL.bottom = Whole(1)
    /\ imgs[1].newURL.height = Whole(600)
    /\ get(params.ratio) = Num(8, 5)
    /\ url(params).height = Whole(563)

\* ------------------------------------------------------------------------
\* C24: the options of the request
\* ------------------------------------------------------------------------

\* v is an integer that is at least 1.
IsPositiveInteger(v) == Len(v) = 2 /\ v[2] = 1 /\ v[1] >= 1

\* The request u carries a width, a height and a maxiter that are integers of
\* at least 1, and a type that is mandelbrot or julia.
WellFormed(u) ==
    /\ IsPositiveInteger(u.width)
    /\ IsPositiveInteger(u.height)
    /\ IsPositiveInteger(u.maxiter)
    /\ u.type \in { Str("mandelbrot"), Str("julia") }

\* C24: in every state, the request url() builds from the live parameters,
\* which is the one the pending image change dispatches, carries width,
\* height and maxiter as integers of at least 1 and a type that is mandelbrot
\* or julia, and so does every request that was dispatched.
C24_RequestWellFormed ==
    /\ WellFormed(url(params))
    /\ \A i \in 1..Len(imgs) : WellFormed(imgs[i].newURL)

\* ------------------------------------------------------------------------
\* C25: the window has a positive size and a positive ratio
\* ------------------------------------------------------------------------

\* C25: in every state, the size and the ratio of the parameters are
\* greater than 0.
C25_PositiveSizeAndRatio ==
    /\ RLess(Whole(0), get(params.size))
    /\ RLess(Whole(0), get(params.ratio))

\* ------------------------------------------------------------------------
\* C26: the query string round trip
\* ------------------------------------------------------------------------

\* The parameters Parameters.from builds on a fresh instance from the query
\* of p.
Reloaded(p) == from(NewParameters, query(p)).p

\* C26: in every state, Parameters.from on a fresh instance accepts the query
\* of the live parameters, and gives parameters with the same query and the
\* same get() for every parameter; with maxiter 50 and type julia explicit
\* the reloaded parameters have maxiter 50 and type julia.  The default the
\* layout of the canvas gave the ratio is no part of the parameters the
\* claim is about: the ratio is compared while its default is the fresh one.
C26_QueryRoundTrip ==
    /\ ~FromThrows(query(params))
    /\ query(Reloaded(params)) = query(params)
    /\ \A n \in PropNames :
           \/ /\ n = "ratio"
              /\ params.ratio.default # NewParameters.ratio.default
           \/ get(Reloaded(params)[n]) = get(params[n])
    /\ (maybe(params.maxiter) = Whole(50) /\ maybe(params.type) = Str("julia"))
          => /\ get(Reloaded(params).maxiter) = Whole(50)
             /\ get(Reloaded(params).type) = Str("julia")

\* ------------------------------------------------------------------------
\* C27: which parameters the query holds
\* ------------------------------------------------------------------------

\* The parameters of p that hold an explicitly set value.
ExplicitNames(p) == { n \in PropNames : maybe(p[n]) # Undef }

\* C27, as stated: in every state, the query holds a key for exactly the
\* parameters with an explicitly set value that differs from the default.
C27_OnlyNonDefault ==
    DOMAIN query(params) =
        { n \in PropNames : maybe(params[n]) # Undef
                            /\ maybe(params[n]) # params[n].default }

\* C27, amended: in every state, the query holds a key for exactly the
\* parameters with an explicitly set value, equal to the default or not, and
\* the text under the key is the text of that value; a parameter that is not
\* set has no key.
C27_QueryHoldsSetValues ==
    LET q == query(params)
    IN  /\ \A n \in PropNames :
               n \in DOMAIN q <=> params[n].value # Undef
        /\ \A n \in DOMAIN q : q[n] = encodeString(n, params[n].value)

\* The type was set to mandelbrot, which is its default: the query holds
\* type=mandelbrot, and no key for maxiter, which is not set.
C27_Witness ==
    /\ maybe(params.type) = Str("mandelbrot")
    /\ params.type.default = Str("mandelbrot")
    /\ "type" \in DOMAIN query(params)
    /\ query(params).type = << "mandelbrot" >>
    /\ "maxiter" \notin DOMAIN query(params)

\* ------------------------------------------------------------------------
\* C28: a query with a text that does not decode
\* ------------------------------------------------------------------------

\* C28: when handleLocationChange reads a query in which a text does not
\* decode, params.from returns to it and it runs to its end: the image
\* change is queued by handleLocationChange itself and the reload timer is
\* pending, and the parameter of the text that does not decode keeps its
\* value.
C28_InvalidInputCaught ==
    [][ \A q \in StoreQueries :
            (FromThrows(q) /\ handleLocationChange(q))
               => /\ last' = "location"
                  /\ reloadTimer' \in timers'
                  /\ \A n \in DOMAIN q \cap PropNames :
                         Throws(n, q[n]) => params'[n].value = params[n].value
      ]_vars

\* ------------------------------------------------------------------------
\* C29: gestures on a window that cannot be inverted
\* ------------------------------------------------------------------------

\* v is a number other than NaN and the infinities.
IsWellFormedNumber(v) == Len(v) = 2 /\ IsFinite(v)

\* C29: no gesture overwrites a parameter with a value derived from a
\* transform that cannot be inverted: after every step of the element, the
\* x, y and size of the live parameters are finite numbers, and a step taken
\* while the matrix of the view cannot be inverted leaves x and y as they
\* were.
C29_GeometryErrorsKeepState ==
    [][ /\ IsWellFormedNumber(get(params'.x))
        /\ IsWellFormedNumber(get(params'.y))
        /\ IsWellFormedNumber(get(params'.size))
        /\ (canvasFromFractal # Undef
              /\ Inverse(canvasFromFractal[1]) = Matrix2(NaN, NaN, NaN, NaN))
               => /\ params'.x = params.x
                  /\ params'.y = params.y
      ]_vars

\* ------------------------------------------------------------------------
\* C30: the inverse of a singular Transform
\* ------------------------------------------------------------------------

\* C30: a call of inverse() on a Transform whose determinant is 0 returns no
\* matrix: what the caller holds afterwards is not a Transform, and so
\* neither the matrix of zeroes nor the identity.
C30_InverseSignals ==
    [][ (Determinant(heldTransform) = Whole(0) /\ CallInverse)
           => /\ Len(heldTransform') # 9
              /\ heldTransform' \notin { ZeroTransform, IdentityTransform }
      ]_vars

\* ------------------------------------------------------------------------
\* C31: inverse and composition of Transforms
\* ------------------------------------------------------------------------

\* m is affine: its third row is 0, 0, 1.
IsAffine(m) == m[7] = Whole(0) /\ m[8] = Whole(0) /\ m[9] = Whole(1)

\* b is applied first, then a.
ComposesRight(a, b) ==
    \A p \in ApplyPoints :
        Transform_apply(Transform_with(a, b), p)
            = Transform_apply(a, Transform_apply(b, p))

\* C31: in every state in which the Transform held, m, is affine with a
\* determinant other than 0, m.with(m.inverse()) and m.inverse().with(m)
\* are the identity, and with composes to the right, b first: for every
\* affine Transform b the caller composes with and every point p,
\* m.with(b).apply(p) = m.apply(b.apply(p)) and
\* b.with(m).apply(p) = b.apply(m.apply(p)).  (The numbers are exact here;
\* in doubles the products are the identity up to rounding.)
C31_InverseAndComposition ==
    (IsAffine(heldTransform) /\ Determinant(heldTransform) # Whole(0))
       => /\ Transform_with(heldTransform, Transform_inverse(heldTransform))
                = IdentityTransform
          /\ Transform_with(Transform_inverse(heldTransform), heldTransform)
                = IdentityTransform
          /\ \A b \in WithTransforms \cup StartTransforms :
                 /\ ComposesRight(heldTransform, b)
                 /\ ComposesRight(b, heldTransform)

\* The Transform held is affine and can be inverted, it is neither the
\* identity nor its own inverse, and the order of a composition with it
\* matters.
C31_Witness ==
    /\ IsAffine(heldTransform)
    /\ Determinant(heldTransform) # Whole(0)
    /\ heldTransform # IdentityTransform
    /\ Transform_inverse(heldTransform) # heldTransform
    /\ \E b \in WithTransforms :
           Transform_with(heldTransform, b) # Transform_with(b, heldTransform)

\* ------------------------------------------------------------------------
\* C32: the image on display catches up with the parameters
\* ------------------------------------------------------------------------

\* Nothing is pending: no timeout is scheduled and no load is in flight.
Idle == timers = {} /\ loadingImg = 0

\* The load that was issued last has failed: its element got its event and
\* is not the one on display.
LastFailed ==
    /\ Len(imgs) > 0
    /\ imgs[Len(imgs)].done
    /\ currentImg # Len(imgs)

\* The committed image is the one for the live parameters.
Consistent ==
    /\ currentImg # 0
    /\ imgs[currentImg].newURL = url(params)
    /\ currentParams # Undef
    /\ \A n \in PropNames : get(currentParams[1][n]) = get(params[n])

\* C32: when the changes stop and the loads issued from then on succeed,
\* which leaves the element with nothing pending for good and the load
\* issued last not failed, then from some point on the committed image is
\* the one for the live parameters: its URL is params.url() and
\* currentParams has the values of the live parameters.
C32_EventuallyConsistent ==
    <>[](Idle /\ ~LastFailed) => <>[]Consistent

\* ------------------------------------------------------------------------
\* C33: the spinner terminates
\* ------------------------------------------------------------------------

\* The values of last after a step that changed a parameter or read the
\* location, each of which calls queueImageChange.
ChangeLogs == { "notified", "location", "threw" }

\* No debounce timer is pending, no load is in flight and the spinner is
\* off.
Quiet == timers = {} /\ loadingImg = 0 /\ ~loading

\* C33: when the parameter changes stop (with every timeout expiring and
\* every issued load getting its load or error event, the fairness of
\* FairSpec), then from some point on no debounce timer is pending, no load
\* is in flight and loading is false; and a step that ends such a state is a
\* change.
C33_SpinnerTerminates ==
    /\ <>[](last \notin ChangeLogs) => <>[]Quiet
    /\ [][Quiet => Quiet' \/ last' \in ChangeLogs]_vars

\* The spinner is off again after a second load was dispatched and failed.
C33_Witness == Quiet /\ history >= 2 /\ last = "fail"

\* ------------------------------------------------------------------------
\* C34: the loading indicator
\* ------------------------------------------------------------------------

\* C34: after every handler, loading is true exactly when loadingImg is
\* defined; a dispatch sets both, loadingImg to the load it issued, and
\* hides the error indicator; and a step that clears either one clears both
\* and delivers the load or error event of the most recently issued load.
C34_LoadingIndicator ==
    /\ [](loading <=> loadingImg # 0)
    /\ [][ /\ last' = "dispatch" =>
               /\ loading'
               /\ loadingImg' = Len(imgs')
               /\ Len(imgs') = Len(imgs) + 1
               /\ ~imgError'
           /\ (loading /\ ~loading') \/ (loadingImg # 0 /\ loadingImg' = 0) =>
               /\ Completes(Len(imgs))
               /\ ~loading'
               /\ loadingImg' = 0 ]_vars

\* A second load was dispatched after the first one had failed and shown
\* the error indicator.
C34_Witness ==
    /\ last = "dispatch"
    /\ Len(imgs) = 2
    /\ imgs[1].done
    /\ currentImg = 0
    /\ loading
    /\ loadingImg = 2

\* ------------------------------------------------------------------------
\* C35: the state of a drag
\* ------------------------------------------------------------------------

\* C35: whenever imgscrollOrigin is undefined tempTransform is the identity;
\* handleMouseOut, and handleMouseUp with the primary button released, leave
\* the origin undefined and tempTransform the identity; an origin becomes
\* defined only by a handleMouseDown with the primary button pressed; and
\* handleMouseOut changes no parameter and schedules no timeout.
C35_DragState ==
    /\ [](imgscrollOrigin = Undef => tempTransform = Identity)
    /\ [][ /\ \/ handleMouseOut
              \/ \E p \in ScreenPoints :
                     \E b \in Buttons : b % 2 = 0 /\ handleMouseUp(p[1], p[2], b)
              => imgscrollOrigin' = Undef /\ tempTransform' = Identity
           /\ imgscrollOrigin = Undef /\ imgscrollOrigin' # Undef =>
                  \E p \in ScreenPoints :
                     \E b \in Buttons : b % 2 = 1 /\ handleMouseDown(p[1], p[2], b)
           /\ handleMouseOut =>
                  /\ params' = params
                  /\ timers' = timers
                  /\ reloadTimer' = reloadTimer ]_vars

\* No drag is in progress, and a gesture has moved the view.
C35_Witness ==
    /\ imgscrollOrigin = Undef
    /\ tempTransform = Identity
    /\ localTransform # Identity
    /\ last = "notified"

\* ------------------------------------------------------------------------
\* C36: from() and the state before it
\* ------------------------------------------------------------------------

\* C36: after handleLocationChange on a location whose query q from reads to
\* its end, the parameters are those of a new Parameters after from(q): the
\* same explicit values, so none for a parameter absent from q, and the same
\* values of get (but for ratio, whose default is the shape of the canvas).
C36_FromIndependent ==
    [][ \A q \in StoreQueries :
          handleLocationChange(q) /\ ~FromThrows(q) =>
             /\ \A n \in PropNames :
                    maybe(params'[n]) = maybe(from(NewParameters, q).p[n])
             /\ \A n \in PropNames \ {"ratio"} :
                    get(params'[n]) = get(from(NewParameters, q).p[n]) ]_vars

\* ------------------------------------------------------------------------
\* C37: the application of a preset
\* ------------------------------------------------------------------------

\* C37: after handlePreset has selected the preset t, every parameter the
\* preset names has no explicit value and get gives the value of the preset,
\* and every other parameter but the selection itself keeps its explicit
\* value and its default.  After from(q), for a query from reads to its end,
\* every parameter given in q holds the value of its text, every other
\* parameter keeps the explicit value it had, and a parameter the selected
\* preset names has the value of the preset for get when it has no explicit
\* value.
C37_PresetApplication ==
    [][ /\ \A t \in PresetTexts :
              handlePreset(t) =>
                 /\ get(params'.presets) = t
                 /\ \A n \in PropNames \ {"presets"} :
                        IF n \in DOMAIN presets[t[1]]
                        THEN /\ maybe(params'[n]) = Undef
                             /\ get(params'[n]) = presets[t[1]][n]
                        ELSE params'[n] = params[n]
        /\ \A q \in StoreQueries :
              last' = "location" /\ handleLocationChange(q) =>
                 \A n \in PropNames :
                    /\ n \in DOMAIN q =>
                           maybe(params'[n]) = decodeString(n, q[n])
                    /\ n \notin DOMAIN q =>
                           maybe(params'[n]) = maybe(params[n])
                    /\ n \in DOMAIN presets[get(params'.presets)[1]]
                          /\ maybe(params'[n]) = Undef =>
                           get(params'[n]) = presets[get(params'.presets)[1]][n]
                    /\ n \notin DOMAIN presets[get(params'.presets)[1]]
                          /\ n \notin DOMAIN q =>
                           params'[n] = params[n] ]_vars

\* The location ?maxiter=50&type=julia was read while the preset Julia was
\* selected: both values are explicit.
C37_Witness ==
    /\ last = "location"
    /\ get(params.presets) = Str("Julia")
    /\ maybe(params.maxiter) = Whole(50)
    /\ maybe(params.type) = Str("julia")

\* ------------------------------------------------------------------------
\* C38: a text that does not decode
\* ------------------------------------------------------------------------

\* C38: when setFromString is given a text that decodes to Invalid it throws
\* (from is left at that container) and the container keeps its explicit
\* value and its default, with no timeout scheduled when no other container
\* changed; handleChange with the empty text leaves the container without an
\* explicit value and with its default; and handleChange with a text that is
\* not valid changes no parameter and schedules no timeout.
C38_InvalidTextChangesNothing ==
    [][ /\ \A q \in StoreQueries :
              last' = "threw" /\ handleLocationChange(q) =>
                 /\ \A n \in DOMAIN q \cap PropNames :
                        Throws(n, q[n]) => params'[n] = params[n]
                 /\ params' = params => UNCHANGED << timers, reloadTimer >>
        /\ \A n \in PropNames :
              \A t \in EditTexts[n] :
                 handleChange(n, t) =>
                    /\ t = << >> =>
                          /\ maybe(params'[n]) = Undef
                          /\ params'[n].default = params[n].default
                    /\ ~valid(n, t) =>
                          UNCHANGED << params, timers, reloadTimer >> ]_vars

\* The location ?presets=Julia&type=foo was read by an element with maxiter
\* and type set: from took the preset and was left at the type.
C38_Witness ==
    /\ last = "threw"
    /\ maybe(params.presets) = Str("Julia")
    /\ maybe(params.maxiter) = Whole(50)
    /\ maybe(params.type) = Str("julia")

============================================================================
